---- MODULE Spec2Model ----
(***************************************************************************)
(* Client-side data synchronisation of the pet-care pages: the realtime    *)
(* "My Posts" mirror of the Lost page, the Health log mirror, the per-user *)
(* Vaccines page (Firestore) and its localStorage variant, and the Home    *)
(* profile subscription.  The router mounts one page per run (route).      *)
(*                                                                         *)
(* Strings are sequences of one-character strings so that trim() and       *)
(* toLowerCase() are computed, not assumed.  A Firestore timestamp is a    *)
(* number 1..MaxClock; 0 stands for a serverTimestamp() still pending,     *)
(* which d.data() reports as null.                                         *)
(*                                                                         *)
(* Left out, because no mirror, subscription or write depends on them: the *)
(* detail dialog and the list filter of the Vaccines page, the demo        *)
(* entries button of its Firestore version, the colour and last-seen of    *)
(* the Lost page, and the photo upload of Home.  The optional vet,         *)
(* location and batch fields of a vaccine are carried like notes, and the  *)
(* recommended schedule of the localStorage page has one item.  The        *)
(* localStorage implementation of the Vaccines page is mounted as          *)
(* "/vaccines-local".  A session performs at most MaxOps user operations.  *)
(*                                                                         *)
(* The match search of the Lost page reads the store and writes only its   *)
(* own result list, so it runs in a specification of its own, SearchSpec,  *)
(* over stores whose reports differ in pet name and location.              *)
(* ImpatientSpec is the Health and Vaccines pages with a user who submits  *)
(* a form again while the first submission is still in flight.             *)
(*                                                                         *)
(* The Disease page is the selected image, the busy flag and the result    *)
(* or error of the analyze request; its animal, sex and file name do not   *)
(* influence them.  An image is a name, and a result records the image of  *)
(* the request it answers.  BusySpec is the pages that have an action      *)
(* behind a busy flag, with the analysis request of the Health page.       *)
(***************************************************************************)
EXTENDS Integers, Sequences, FiniteSets, TLC

\* ---------------------------------------------------------------- bounds
MaxDocs == 1
MaxClock == 2
\* user operations (inputs, button presses, sign-ins) in one session
MaxOps == 5

\* ------------------------------------------------------------- constants
NULL == "null"
NullStr == <<"null">>   \* null where a string is expected (strings are sequences)
\* what a listener has delivered: nothing yet, or its last snapshot
NoSnap == [got |-> FALSE, docs |-> <<>>]
Got(snap) == [got |-> TRUE, docs |-> snap]
Users == {"A", "B"}
ErrorCodes == {"permission-denied", "unavailable"}
Routes == {"/lost", "/health", "/vaccines", "/vaccines-local", "/", "/disease"}
VaccinesPath == [u \in Users |-> IF u = "A" THEN "users/A/vaccines" ELSE "users/B/vaccines"]
Collections == {"lostPets", "foundPets", "healthLogs", "profiles"} \cup {VaccinesPath[u] : u \in Users}
LostLimit == 25
HealthLimit == 200

\* documents the store holds when the page is opened, left by earlier sessions
LostSeed(id, type, uid, t) ==
  [id |-> id, type |-> type, petName |-> NullStr, petName_lc |-> NullStr,
   location |-> <<"C">>, location_lc |-> <<"c">>, photoURL |-> NULL,
   createdAt |-> t, byUid |-> uid]
HealthSeed(id, uid, t) == [id |-> id, byUid |-> uid, createdAt |-> t, food |-> <<"k">>]
\* Timestamp.fromDate(new Date(str)) and Timestamp.toDate()
TimestampFromInput(str) == [ts |-> str]
toDate(t) == [date |-> t.ts]
VaccSeed(id, t) ==
  [id |-> id, name |-> <<"R">>, dueDate |-> TimestampFromInput("2025-01-01"), notes |-> <<>>,
   done |-> FALSE, createdAt |-> t]
SeedStore ==
  [c \in Collections |->
     IF c = "lostPets" THEN {LostSeed(1, "lost", "A", 1), LostSeed(3, "lost", "B", 1)}
     ELSE IF c = "foundPets" THEN {LostSeed(2, "found", "A", 1)}
     ELSE IF c = "healthLogs" THEN {HealthSeed(1, "A", 1), HealthSeed(2, "B", 1)}
     ELSE IF c = VaccinesPath["A"] THEN {VaccSeed(1, 1)}
     ELSE {}]
SeedIds == UNION {{d.id : d \in SeedStore[c]} : c \in Collections}
FirstNewId == Cardinality(SeedIds) + 1

VARIABLES
  route,        \* the page the router has mounted
  pageMounted,  \* the page component is still mounted
  currentUser,  \* auth.currentUser: a uid or NULL
  db,           \* the Firestore client's view of every collection (latency-compensated)
  writes,       \* writes issued and not yet settled: [op, col, id, prev (the documents to restore)]
  calls,        \* invocations of async handlers suspended at an await
  nextId,       \* next document id the store generates
  clock,        \* last server timestamp assigned
  listeners,    \* active onSnapshot registrations: records [col, uid, lim]
  delivered,    \* per collection, the result of the last snapshot delivered (or NoSnap)
  lastAlert,    \* text of the alert() raised by the last step ("" when it raised none)
  answer,       \* the confirm() dialog of the last step and the user's answer (NoAnswer without one)
  \* ---- Lost page
  mode, file, fileName, location, saving,
  myPosts, myLoading, isMounted, unsubscribes, setupPc,
  petName,      \* the pet name input
  results,      \* the list under "Possible matches"
  loading,      \* a findMatches call is in flight
  batches,      \* its getDocs calls, lostPets first: [q, snap (NoSnap until answered)]
  \* ---- Health page
  logs, healthLoading, mounted, unsub, healthPc, healthForm,
  \* ---- Vaccines page (Firestore)
  user, loadingUser, entries, loadingData, form, editingId,
  effectUser,   \* the value of `user` the subscribe effect last ran with
  \* ---- Vaccines page (localStorage): entries, form, editingId as above, and
  stored,       \* the localStorage item under STORAGE_KEY
  demoUsed,     \* the recommended schedule has been added
  \* ---- Home page
  homeUid, profile, homeUnsub, homePc,
  \* ---- Health page, analysis
  analyzing,    \* an analyzeNow call is in flight
  analysis,     \* the last analysis received, or NULL
  \* ---- Disease page
  imgB64,       \* the selected image, or NULL
  diseaseLoading, \* `loading` of the Disease page: an analyze call is in flight
  res,          \* the displayed result, with the image it was computed from, or NoRes
  err,          \* the displayed error text, "" for null
  ops,          \* user operations so far
  impatient     \* the user presses a submit control again while its call is in flight

sharedVars == <<route, pageMounted, currentUser, db, writes, calls, nextId, clock,
                listeners, delivered>>
lostFormVars == <<mode, file, fileName, location, saving>>
lostMirrorVars == <<myPosts, myLoading, isMounted, unsubscribes, setupPc>>
searchVars == <<petName, results, loading, batches>>
lostVars == <<lostFormVars, lostMirrorVars, searchVars>>
analyzeVars == <<analyzing, analysis>>
healthVars == <<logs, healthLoading, mounted, unsub, healthPc, healthForm, analyzeVars>>
diseaseVars == <<imgB64, diseaseLoading, res, err>>
vaccVars == <<user, loadingUser, entries, loadingData, form, editingId, effectUser>>
homeVars == <<homeUid, profile, homeUnsub, homePc>>
localVars == <<stored, demoUsed>>
notLost == <<healthVars, vaccVars, localVars, homeVars, diseaseVars>>
notHealth == <<lostVars, vaccVars, localVars, homeVars, diseaseVars, analyzeVars>>
notVacc == <<lostVars, healthVars, localVars, homeVars, diseaseVars>>
notLocal == <<lostVars, healthVars, user, loadingUser, loadingData, effectUser, homeVars, diseaseVars>>
notHome == <<lostVars, healthVars, vaccVars, localVars, diseaseVars>>
notDisease == <<lostVars, healthVars, vaccVars, localVars, homeVars>>
pageVars == <<lostVars, healthVars, vaccVars, localVars, homeVars, diseaseVars>>
vars == <<sharedVars, lastAlert, answer, pageVars, ops, impatient>>

\* ---------------------------------------------------------------- strings
Empty == <<>>
LowerOf == [c \in {" ", "b", "B", "c", "C"} |->
              IF c = "B" THEN "b" ELSE IF c = "C" THEN "c" ELSE c]

RECURSIVE trimStart(_)
trimStart(s) == IF s # <<>> /\ Head(s) = " " THEN trimStart(Tail(s)) ELSE s

RECURSIVE trimEnd(_)
trimEnd(s) == IF s # <<>> /\ s[Len(s)] = " " THEN trimEnd(SubSeq(s, 1, Len(s) - 1)) ELSE s

trim(s) == trimEnd(trimStart(s))

toLowerCase(s) == [i \in 1..Len(s) |-> LowerOf[s[i]]]

\* normalize = (s) => (s || "").trim().toLowerCase()
normalize(s) == toLowerCase(trim(IF s = NullStr THEN Empty ELSE s))

\* x || null for a string
OrNull(s) == IF s = Empty THEN NullStr ELSE s

\* ------------------------------------------------------------------ store
\* limit(n); n = 0 stands for a query without limit
Take(s, n) == IF n = 0 \/ Len(s) <= n THEN s ELSE SubSeq(s, 1, n)

Range(s) == {s[i] : i \in 1..Len(s)}

\* orderBy("createdAt", "desc"): a pending server timestamp orders as the newest;
\* equal timestamps are ordered by document key.
OrderKey(d) == IF d.createdAt = 0 THEN MaxClock + 1 ELSE d.createdAt
Newer(a, b) == OrderKey(a) > OrderKey(b) \/ (OrderKey(a) = OrderKey(b) /\ a.id > b.id)

RECURSIVE NewestFirst(_)
\* the documents of set S as a sequence, in the order of the query
NewestFirst(S) ==
  IF S = {} THEN <<>>
  ELSE LET m == CHOOSE x \in S : \A y \in S \ {x} : Newer(x, y)
       IN <<m>> \o NewestFirst(S \ {m})

\* query(collection(db, col), where("byUid", "==", uid), orderBy("createdAt", "desc"), limit(lim))
Query(store, q) ==
  Take(NewestFirst({d \in store[q.col] : q.uid = NULL \/ d.byUid = q.uid}), q.lim)

HasNews(q) == q \in listeners /\ Got(Query(db, q)) # delivered[q.col]

\* the server accepts a create: serverTimestamp() is resolved, never running backwards
Stamps == {t \in {clock, clock + 1} : t <= MaxClock}
AckAdd(store, w, t) ==
  [store EXCEPT ![w.col] = {IF d.id = w.id THEN [d EXCEPT !.createdAt = t] ELSE d : d \in @}]
\* the server rejects a write: the local change is rolled back
Rollback(store, w) ==
  [store EXCEPT ![w.col] = {d \in @ : d.id # w.id} \cup w.prev]

\* the store still hands out ids within the bound
CanCreate ==
  nextId + Cardinality({c \in calls : c.pc \in {"ensure", "upload"}})
    < FirstNewId + MaxDocs + (IF impatient THEN 1 ELSE 0)

\* no alert() is raised by this step
Quiet == lastAlert' = ""
\* no confirm() dialog was shown
NoAnswer == [text |-> "", yes |-> FALSE]
\* the step is one more operation of the user, without a confirm() dialog
UserOp == ops < MaxOps /\ ops' = ops + 1 /\ answer' = NoAnswer /\ UNCHANGED impatient
\* the step is one more operation of the user and opens confirm(text), which
\* blocks until the user has answered
Confirm(text, yes) ==
  ops < MaxOps /\ ops' = ops + 1 /\ answer' = [text |-> text, yes |-> yes] /\ UNCHANGED impatient
\* the step is not the user's: a callback, a resumed handler, an effect
Background == UNCHANGED <<ops, impatient>> /\ answer' = NoAnswer

\* ------------------------------------------------------------------- auth
\* ensureSignedIn(): resolves with the current user, or signs in anonymously
\* (a new session identity), or rejects when the anonymous sign-in fails.
ensureSignedIn(cur) ==
  IF cur # NULL THEN {[ok |-> TRUE, user |-> cur]}
  ELSE {[ok |-> TRUE, user |-> u] : u \in Users} \cup {[ok |-> FALSE, user |-> NULL]}

\* LoginForm.submit: signInWithEmailAndPassword succeeds as user u
signIn(u) ==
  /\ UserOp
  /\ currentUser # u
  /\ currentUser' = u
  /\ UNCHANGED <<route, pageMounted, db, writes, calls, nextId, clock, listeners, delivered>> /\ Quiet
  /\ UNCHANGED pageVars

\* the session ends (auth state becomes null)
signOut ==
  /\ UserOp
  /\ currentUser # NULL
  /\ currentUser' = NULL
  /\ UNCHANGED <<route, pageMounted, db, writes, calls, nextId, clock, listeners, delivered>> /\ Quiet
  /\ UNCHANGED pageVars

\* ============================================================== Lost page
LostInputs == {Empty, <<" ", "C">>}

\* a?.createdAt?.toMillis?.() || 0
Millis(a) == a.createdAt

\* one step of the stable Array.prototype.sort with comparator (a, b) => tb - ta
RECURSIVE InsertDesc(_, _)
InsertDesc(sorted, x) ==
  IF sorted = <<>> THEN <<x>>
  ELSE IF Millis(Head(sorted)) >= Millis(x) THEN <<Head(sorted)>> \o InsertDesc(Tail(sorted), x)
  ELSE <<x>> \o sorted

\* faulty variant: the merged list is returned as it was concatenated
sortByDateOff(arr) == arr

RECURSIVE sortByDate(_)
sortByDate(arr) ==
  IF arr = <<>> THEN <<>>
  ELSE InsertDesc(sortByDate(SubSeq(arr, 1, Len(arr) - 1)), arr[Len(arr)])

\* snap.docs.map((d) => ({ id: d.id, ...d.data(), _col }))
Tagged(snap, col) == [i \in 1..Len(snap) |-> [_col |-> col] @@ snap[i]]

SelectCol(prev, col) == SelectSeq(prev, LAMBDA x : x._col = col)

\* faulty variant: the lostPets callback replaces the whole list
MergeLostOnly(prev, items) == sortByDate(items)

\* setMyPosts updater of the lostPets callback
MergeLost(prev, items) == sortByDate(items \o SelectCol(prev, "foundPets"))
\* setMyPosts updater of the foundPets callback
MergeFound(prev, items) == sortByDate(SelectCol(prev, "lostPets") \o items)

qLost(uid) == [col |-> "lostPets", uid |-> uid, lim |-> LostLimit]
qFound(uid) == [col |-> "foundPets", uid |-> uid, lim |-> LostLimit]

\* setup() resumes after `await ensureSignedIn()`
LostSetupResume ==
  /\ Background
  /\ route = "/lost" /\ setupPc = "ensure"
  /\ UNCHANGED notLost
  /\ \E r \in ensureSignedIn(currentUser) :
       IF r.ok
       THEN /\ currentUser' = r.user
            /\ listeners' = listeners \cup {qLost(r.user), qFound(r.user)}
            /\ delivered' = [delivered EXCEPT !["lostPets"] = NoSnap, !["foundPets"] = NoSnap]
            /\ unsubscribes' = {"lostPets", "foundPets"}
       ELSE /\ UNCHANGED <<currentUser, listeners, delivered, unsubscribes>>
  /\ myLoading' = FALSE
  /\ setupPc' = "done"
  /\ UNCHANGED <<route, pageMounted, db, writes, calls, nextId, clock>> /\ Quiet
  /\ UNCHANGED <<lostFormVars, myPosts, isMounted, searchVars>>

\* the effect's cleanup: isMounted = false; unsubscribes.forEach((u) => u && u())
LostUnmount ==
  /\ Background
  /\ route = "/lost" /\ pageMounted
  /\ UNCHANGED notLost
  /\ pageMounted' = FALSE
  /\ isMounted' = FALSE
  /\ listeners' = {q \in listeners : q.col \notin unsubscribes}
  /\ UNCHANGED <<route, currentUser, db, writes, calls, nextId, clock, delivered>> /\ Quiet
  /\ UNCHANGED <<lostFormVars, myPosts, myLoading, unsubscribes, setupPc, searchVars>>

\* onSnapshot(qLost, (snap) => ...)
onSnapshotLost ==
  /\ Background
  /\ route = "/lost"
  /\ UNCHANGED notLost
  /\ \E q \in listeners :
       /\ q.col = "lostPets" /\ HasNews(q)
       /\ LET snap == Query(db, q) IN
            /\ delivered' = [delivered EXCEPT ![q.col] = Got(snap)]
            /\ myPosts' = IF ~isMounted THEN myPosts
                          ELSE MergeLost(myPosts, Tagged(snap, "lostPets"))
  /\ UNCHANGED <<route, pageMounted, currentUser, db, writes, calls, nextId, clock, listeners>> /\ Quiet
  /\ UNCHANGED <<lostFormVars, myLoading, isMounted, unsubscribes, setupPc, searchVars>>

\* onSnapshot(qFound, (snap) => ...)
onSnapshotFound ==
  /\ Background
  /\ route = "/lost"
  /\ UNCHANGED notLost
  /\ \E q \in listeners :
       /\ q.col = "foundPets" /\ HasNews(q)
       /\ LET snap == Query(db, q) IN
            /\ delivered' = [delivered EXCEPT ![q.col] = Got(snap)]
            /\ myPosts' = IF ~isMounted THEN myPosts
                          ELSE MergeFound(myPosts, Tagged(snap, "foundPets"))
  /\ UNCHANGED <<route, pageMounted, currentUser, db, writes, calls, nextId, clock, listeners>> /\ Quiet
  /\ UNCHANGED <<lostFormVars, myLoading, isMounted, unsubscribes, setupPc, searchVars>>

\* a listener of the page fails: onSnapshot was given no error callback, the
\* SDK logs the error and ends the listener
onSnapshotLostError ==
  /\ Background
  /\ route = "/lost"
  /\ UNCHANGED notLost
  /\ \E q \in listeners :
       /\ q.col \in {"lostPets", "foundPets"}
       /\ listeners' = listeners \ {q}
  /\ UNCHANGED <<route, pageMounted, currentUser, db, writes, calls, nextId, clock, delivered>> /\ Quiet
  /\ UNCHANGED lostVars

\* --------------------------------------------------- Lost: form and saveReport
\* onClick={() => setMode(m)}
setMode(m) ==
  /\ UserOp
  /\ route = "/lost" /\ pageMounted /\ mode # m
  /\ UNCHANGED notLost
  /\ mode' = m
  /\ Quiet /\ UNCHANGED <<sharedVars, lostMirrorVars, file, fileName, location, saving, searchVars>>

\* handleFile: setFile(f); setFileName(f.name)
handleFile ==
  /\ UserOp
  /\ route = "/lost" /\ pageMounted /\ file = NULL
  /\ UNCHANGED notLost
  /\ file' = "file" /\ fileName' = <<"f">>
  /\ Quiet /\ UNCHANGED <<sharedVars, lostMirrorVars, mode, location, saving, searchVars>>

\* onChange={(e) => setLocation(e.target.value)}
setLocation(v) ==
  /\ UserOp
  /\ route = "/lost" /\ pageMounted /\ location # v
  /\ UNCHANGED notLost
  /\ location' = v
  /\ Quiet /\ UNCHANGED <<sharedVars, lostMirrorVars, mode, file, fileName, saving, searchVars>>

ColOf(m) == IF m = "lost" THEN "lostPets" ELSE "foundPets"

\* faulty variant: the search fields are stored as typed
ReportDocRaw(c, id, photoURL, cur) ==
  [id |-> id, type |-> c.mode,
   petName |-> OrNull(c.petName),
   petName_lc |-> OrNull(c.petName),
   location |-> c.location, location_lc |-> c.location,
   photoURL |-> photoURL, createdAt |-> 0, byUid |-> cur]

\* the document saveReport hands to addDoc
ReportDoc(c, id, photoURL, cur) ==
  [id |-> id, type |-> c.mode,
   petName |-> OrNull(c.petName),
   petName_lc |-> IF c.petName = Empty THEN NullStr ELSE normalize(c.petName),
   location |-> c.location, location_lc |-> normalize(c.location),
   photoURL |-> photoURL, createdAt |-> 0, byUid |-> cur]

\* addDoc(collection(db, col), {...}) is issued: the document is in the local
\* view at once, its createdAt pending
SaveIssuesAddDoc(c, photoURL, cur) ==
  /\ db' = [db EXCEPT ![ColOf(c.mode)] = @ \cup {ReportDoc(c, nextId, photoURL, cur)}]
  /\ writes' = writes \cup {[op |-> "add", col |-> ColOf(c.mode), id |-> nextId, prev |-> {}]}
  /\ nextId' = nextId + 1
  /\ calls' = (calls \ {c}) \cup {[c EXCEPT !.pc = "addDoc", !.id = nextId]}

\* catch (e) { alert(...) } finally { setSaving(false) }
SaveCatch(c, code) ==
  /\ lastAlert' = IF code = "permission-denied"
                  THEN "Sign-in required. Please refresh and try again."
                  ELSE "Failed to post. Please try again."
  /\ saving' = FALSE
  /\ calls' = calls \ {c}

\* saveReport up to its first await
saveReport ==
  /\ UserOp
  /\ route = "/lost" /\ pageMounted /\ ~saving
  /\ UNCHANGED notLost
  /\ IF location = Empty
     THEN /\ lastAlert' = "Please enter the last seen / found location."
          /\ UNCHANGED <<calls, saving>>
     ELSE /\ CanCreate
          /\ saving' = TRUE
          /\ calls' = calls \cup {[h |-> "saveReport", pc |-> "ensure", id |-> 0, mode |-> mode,
                                   file |-> file, petName |-> petName,
                                   location |-> location]}
          /\ Quiet
  /\ UNCHANGED <<route, pageMounted, currentUser, db, writes, nextId, clock, listeners, delivered>>
  /\ UNCHANGED <<lostMirrorVars, mode, file, fileName, location, searchVars>>

\* saveReport resumes after `await ensureSignedIn()`; without a file
\* uploadImageIfAny() returns null and addDoc is issued
saveReportEnsured ==
  /\ Background
  /\ route = "/lost"
  /\ UNCHANGED notLost
  /\ \E c \in calls :
       /\ c.h = "saveReport" /\ c.pc = "ensure"
       /\ \E r \in ensureSignedIn(currentUser) :
            IF ~r.ok
            THEN /\ \E code \in ErrorCodes : SaveCatch(c, code)
                 /\ UNCHANGED <<currentUser, db, writes, nextId>>
            ELSE /\ currentUser' = r.user
                 /\ IF c.file # NULL
                    THEN /\ calls' = (calls \ {c}) \cup {[c EXCEPT !.pc = "upload"]}
                         /\ UNCHANGED <<db, writes, nextId>>
                    ELSE SaveIssuesAddDoc(c, NULL, r.user)
                 /\ Quiet /\ UNCHANGED saving
  /\ UNCHANGED <<route, pageMounted, clock, listeners, delivered>>
  /\ UNCHANGED <<lostMirrorVars, mode, file, fileName, location, searchVars>>

\* uploadBytes / getDownloadURL settle
saveReportUploaded ==
  /\ Background
  /\ route = "/lost"
  /\ UNCHANGED notLost
  /\ \E c \in calls :
       /\ c.h = "saveReport" /\ c.pc = "upload"
       /\ \/ /\ SaveIssuesAddDoc(c, "url", currentUser)
             /\ Quiet /\ UNCHANGED saving
          \/ /\ \E code \in ErrorCodes : SaveCatch(c, code)
             /\ UNCHANGED <<db, writes, nextId>>
  /\ UNCHANGED <<route, pageMounted, currentUser, clock, listeners, delivered>>
  /\ UNCHANGED <<lostMirrorVars, mode, file, fileName, location, searchVars>>

\* the state the form is left in after a successful post
SaveClearsForm ==
  /\ file' = NULL /\ fileName' = Empty
  /\ UNCHANGED <<mode, location>>

\* addDoc settles: on success setFile(null); setFileName(""); alert("Posted ...")
saveReportAdded ==
  /\ Background
  /\ route = "/lost"
  /\ UNCHANGED notLost
  /\ \E c \in calls :
       /\ c.h = "saveReport" /\ c.pc = "addDoc"
       /\ \E w \in writes :
            /\ w.col = ColOf(c.mode) /\ w.id = c.id
            /\ writes' = writes \ {w}
            /\ \/ /\ \E t \in Stamps : db' = AckAdd(db, w, t) /\ clock' = t
                  /\ SaveClearsForm
                  /\ lastAlert' = "Posted successfully!"
                  /\ saving' = FALSE
                  /\ calls' = calls \ {c}
               \/ /\ db' = Rollback(db, w)
                  /\ \E code \in ErrorCodes : SaveCatch(c, code)
                  /\ UNCHANGED <<clock, mode, file, fileName, location>>
  /\ UNCHANGED <<route, pageMounted, currentUser, nextId, listeners, delivered>>
  /\ UNCHANGED <<lostMirrorVars, searchVars>>

\* ----------------------------------------------------- Lost: findMatches
PetNames == {Empty, <<" ">>, <<"B">>}
\* limit(10) of a filtered query, limit(12) of the most-recent query
SearchLimit == 10
RecentLimit == 12

\* a report as an earlier session left it
SearchDoc(id, type, name, loc, t) ==
  [LostSeed(id, type, "A", t) EXCEPT !.petName = OrNull(name), !.petName_lc = OrNull(normalize(name)),
                                     !.location = loc, !.location_lc = normalize(loc)]
SearchStores ==
  {[c \in Collections |->
      IF c = "lostPets" THEN {SearchDoc(1, "lost", n1, l1, 1), SearchDoc(3, "lost", <<"B">>, <<"C">>, 1)}
      ELSE IF c = "foundPets" THEN {SearchDoc(2, "found", <<"B">>, <<"C">>, 2)}
      ELSE {}] :
     n1 \in {Empty, <<"B">>}, l1 \in {<<"C">>, <<"b">>}}

\* query(col, where("petName_lc", "==", name), where("location_lc", "==", loc),
\*       orderBy("createdAt", "desc"), limit(lim)); an Empty token is no filter
SearchQuery(col, name, loc, lim) == [col |-> col, name |-> name, loc |-> loc, lim |-> lim]
\* getDocs(q) as the store answers it
getDocs(store, q) ==
  Take(NewestFirst({d \in store[q.col] :
                      /\ q.name = Empty \/ d.petName_lc = q.name
                      /\ q.loc = Empty \/ d.location_lc = q.loc}), q.lim)

\* faulty variant: the name-only query is not issued
BatchesNoNameOnly(col, wantName, wantLoc) ==
     (IF wantName # Empty /\ wantLoc # Empty
      THEN <<SearchQuery(col, wantName, wantLoc, SearchLimit)>> ELSE <<>>)
  \o (IF wantLoc # Empty THEN <<SearchQuery(col, Empty, wantLoc, SearchLimit)>> ELSE <<>>)
  \o (IF wantName = Empty /\ wantLoc = Empty
      THEN <<SearchQuery(col, Empty, Empty, RecentLimit)>> ELSE <<>>)

\* the batches run(colName) pushes, in order
Batches(col, wantName, wantLoc) ==
     (IF wantName # Empty /\ wantLoc # Empty
      THEN <<SearchQuery(col, wantName, wantLoc, SearchLimit)>> ELSE <<>>)
  \o (IF wantLoc # Empty THEN <<SearchQuery(col, Empty, wantLoc, SearchLimit)>> ELSE <<>>)
  \o (IF wantName # Empty THEN <<SearchQuery(col, wantName, Empty, SearchLimit)>> ELSE <<>>)
  \o (IF wantName = Empty /\ wantLoc = Empty
      THEN <<SearchQuery(col, Empty, Empty, RecentLimit)>> ELSE <<>>)

\* onChange={(e) => setPetName(e.target.value)}
setPetName(v) ==
  /\ UserOp
  /\ route = "/lost" /\ pageMounted /\ petName # v
  /\ UNCHANGED notLost
  /\ petName' = v
  /\ Quiet /\ UNCHANGED <<sharedVars, lostFormVars, lostMirrorVars, results, loading, batches>>

\* findMatches up to its first await: both run() calls have started every
\* getDocs of their collection
findMatches ==
  /\ UserOp
  /\ route = "/lost" /\ pageMounted /\ ~loading
  /\ UNCHANGED notLost
  /\ loading' = TRUE
  /\ results' = <<>>
  /\ LET wantName == normalize(petName)
         wantLoc == normalize(location)
         started == Batches("lostPets", wantName, wantLoc) \o Batches("foundPets", wantName, wantLoc)
     IN batches' = [i \in 1..Len(started) |-> [q |-> started[i], snap |-> NoSnap]]
  /\ Quiet /\ UNCHANGED <<sharedVars, lostFormVars, lostMirrorVars, petName>>

\* snaps.forEach(snap => snap.forEach(doc => items.push({ id, ...data, _col })))
\* for every batch of one collection, in batch order
RECURSIVE Items(_, _)
Items(bs, col) ==
  IF bs = <<>> THEN <<>>
  ELSE (IF Head(bs).q.col = col THEN Tagged(Head(bs).snap.docs, col) ELSE <<>>)
       \o Items(Tail(bs), col)

\* merged = [...lostItems, ...foundItems]; merged.sort((a, b) => tb - ta)
Merged(bs) == sortByDate(Items(bs, "lostPets") \o Items(bs, "foundPets"))

\* faulty variant: the answers that did arrive are shown
SearchCatchPartial ==
  /\ results' = Merged(SelectSeq(batches, LAMBDA b : b.snap # NoSnap))
  /\ batches' = <<>>
  /\ lastAlert' = "Search failed. Please try again."
  /\ loading' = FALSE

\* catch (e) { alert("Search failed. Please try again.") } finally { setLoading(false) }
SearchCatch ==
  /\ UNCHANGED results
  /\ batches' = <<>>
  /\ lastAlert' = "Search failed. Please try again."
  /\ loading' = FALSE

\* one getDocs settles; a rejection rejects Promise.all: catch alerts and
\* finally clears loading
getDocsSettled ==
  /\ Background
  /\ route = "/lost" /\ loading
  /\ UNCHANGED notLost
  /\ \E i \in 1..Len(batches) :
       /\ batches[i].snap = NoSnap
       /\ \/ /\ batches' = [batches EXCEPT ![i].snap = Got(getDocs(db, batches[i].q))]
             /\ Quiet /\ UNCHANGED <<loading, results>>
          \/ SearchCatch
  /\ UNCHANGED <<sharedVars, lostFormVars, lostMirrorVars, petName>>

\* both run() calls have resolved: setResults(merged), finally setLoading(false)
findMatchesResolved ==
  /\ Background
  /\ route = "/lost" /\ loading
  /\ UNCHANGED notLost
  /\ \A i \in 1..Len(batches) : batches[i].snap # NoSnap
  /\ results' = Merged(batches)
  /\ loading' = FALSE
  /\ batches' = <<>>
  /\ Quiet /\ UNCHANGED <<sharedVars, lostFormVars, lostMirrorVars, petName>>

\* ============================================================ Health page
EmptyHealthForm == [food |-> Empty, water |-> Empty]
HealthForms == {EmptyHealthForm, [food |-> <<" ", "k">>, water |-> <<"1">>]}

qHealth(uid) == [col |-> "healthLogs", uid |-> uid, lim |-> HealthLimit]

\* the effect's async body resumes after `await ensureSignedIn()`
HealthSetupResume ==
  /\ Background
  /\ route = "/health" /\ healthPc = "ensure"
  /\ UNCHANGED notHealth
  /\ \E r \in ensureSignedIn(currentUser) :
       IF r.ok
       THEN /\ currentUser' = r.user
            /\ listeners' = listeners \cup {qHealth(r.user)}
            /\ delivered' = [delivered EXCEPT !["healthLogs"] = NoSnap]
            /\ unsub' = "listener"
       ELSE /\ UNCHANGED <<currentUser, listeners, delivered, unsub>>
  /\ healthLoading' = IF mounted THEN FALSE ELSE healthLoading
  /\ healthPc' = "done"
  /\ UNCHANGED <<route, pageMounted, db, writes, calls, nextId, clock>> /\ Quiet
  /\ UNCHANGED <<logs, mounted, healthForm>>

\* the effect's cleanup: mounted = false; unsub && unsub()
HealthUnmount ==
  /\ Background
  /\ route = "/health" /\ pageMounted
  /\ UNCHANGED notHealth
  /\ pageMounted' = FALSE
  /\ mounted' = FALSE
  /\ listeners' = IF unsub = "listener" THEN {q \in listeners : q.col # "healthLogs"} ELSE listeners
  /\ UNCHANGED <<route, currentUser, db, writes, calls, nextId, clock, delivered>> /\ Quiet
  /\ UNCHANGED <<logs, healthLoading, unsub, healthPc, healthForm>>

\* faulty variant: the callback sets logs without looking at `mounted`
HealthApplyUnguarded(prev, items) == items

\* what the snapshot callback leaves in logs: if (mounted) setLogs(items)
HealthApply(prev, items) == IF mounted THEN items ELSE prev

\* onSnapshot(q, (snap) => ...)
onSnapshotHealth ==
  /\ Background
  /\ route = "/health"
  /\ UNCHANGED notHealth
  /\ \E q \in listeners :
       /\ q.col = "healthLogs" /\ HasNews(q)
       /\ LET snap == Query(db, q) IN
            /\ delivered' = [delivered EXCEPT ![q.col] = Got(snap)]
            /\ logs' = HealthApply(logs, snap)
  /\ UNCHANGED <<route, pageMounted, currentUser, db, writes, calls, nextId, clock, listeners>> /\ Quiet
  /\ UNCHANGED <<healthLoading, mounted, unsub, healthPc, healthForm>>

\* the listener fails: onSnapshot was given no error callback, the SDK logs
\* the error and ends the listener
onSnapshotHealthError ==
  /\ Background
  /\ route = "/health"
  /\ UNCHANGED notHealth
  /\ \E q \in listeners :
       /\ q.col = "healthLogs"
       /\ listeners' = listeners \ {q}
  /\ UNCHANGED <<route, pageMounted, currentUser, db, writes, calls, nextId, clock, delivered>> /\ Quiet
  /\ UNCHANGED healthVars

\* onChange={(e) => setForm((s) => ({ ...s, <field>: e.target.value }))}
setHealthForm(f) ==
  /\ UserOp
  /\ route = "/health" /\ pageMounted /\ healthForm # f
  /\ UNCHANGED notHealth
  /\ healthForm' = f
  /\ Quiet /\ UNCHANGED <<sharedVars, logs, healthLoading, mounted, unsub, healthPc>>

\* the user starts one action at a time: no handler is suspended at an await
\* and no write is in flight
Idle == calls = {} /\ writes = {}

\* faulty variant: the failure is swallowed without a message
SubmitLogCatchSilent(c, code) ==
  /\ lastAlert' = ""
  /\ calls' = calls \ {c}

\* catch (e) { alert(...) } of submitLog
SubmitLogCatch(c, code) ==
  /\ lastAlert' = IF code = "permission-denied"
                  THEN "Signin required (enable Anonymous in Firebase Auth)."
                  ELSE "Failed to save log. Try again."
  /\ calls' = calls \ {c}

\* submitLog up to `await ensureSignedIn()`
submitLog ==
  /\ UserOp
  /\ route = "/health" /\ pageMounted /\ (Idle \/ impatient) /\ CanCreate
  /\ UNCHANGED notHealth
  /\ calls' = calls \cup {[h |-> "submitLog", pc |-> "ensure", id |-> 0, form |-> healthForm,
                           n |-> ops]}
  /\ UNCHANGED <<route, pageMounted, currentUser, db, writes, nextId, clock, listeners, delivered>> /\ Quiet
  /\ UNCHANGED healthVars

\* the document submitLog hands to addDoc
LogDoc(c, id, cur) ==
  [id |-> id, byUid |-> cur, createdAt |-> 0, food |-> trim(c.form.food)]

\* submitLog resumes after ensureSignedIn and issues addDoc
submitLogEnsured ==
  /\ Background
  /\ route = "/health"
  /\ UNCHANGED notHealth
  /\ \E c \in calls :
       /\ c.h = "submitLog" /\ c.pc = "ensure"
       /\ \E r \in ensureSignedIn(currentUser) :
            IF ~r.ok
            THEN /\ \E code \in ErrorCodes : SubmitLogCatch(c, code)
                 /\ UNCHANGED <<currentUser, db, writes, nextId>>
            ELSE /\ currentUser' = r.user
                 /\ db' = [db EXCEPT !["healthLogs"] = @ \cup {LogDoc(c, nextId, r.user)}]
                 /\ writes' = writes \cup {[op |-> "add", col |-> "healthLogs", id |-> nextId, prev |-> {}]}
                 /\ nextId' = nextId + 1
                 /\ calls' = (calls \ {c}) \cup {[c EXCEPT !.pc = "addDoc", !.id = nextId]}
                 /\ Quiet
  /\ UNCHANGED <<route, pageMounted, clock, listeners, delivered>>
  /\ UNCHANGED healthVars

\* addDoc settles: on success the form is reset
submitLogAdded ==
  /\ Background
  /\ route = "/health"
  /\ UNCHANGED notHealth
  /\ \E c \in calls :
       /\ c.h = "submitLog" /\ c.pc = "addDoc"
       /\ \E w \in writes :
            /\ w.col = "healthLogs" /\ w.id = c.id /\ w.op = "add"
            /\ writes' = writes \ {w}
            /\ \/ /\ \E t \in Stamps : db' = AckAdd(db, w, t) /\ clock' = t
                  /\ healthForm' = EmptyHealthForm
                  /\ calls' = calls \ {c}
                  /\ Quiet
               \/ /\ db' = Rollback(db, w)
                  /\ \E code \in ErrorCodes : SubmitLogCatch(c, code)
                  /\ UNCHANGED <<clock, healthForm>>
  /\ UNCHANGED <<route, pageMounted, currentUser, nextId, listeners, delivered>>
  /\ UNCHANGED <<logs, healthLoading, mounted, unsub, healthPc>>

\* deleteDoc(doc(db, col, id)) is issued: the document leaves the local view at once
IssueDelete(store, col, id) == [store EXCEPT ![col] = {d \in @ : d.id # id}]
DeleteWrite(store, col, id) ==
  [op |-> "delete", col |-> col, id |-> id,
   prev |-> {d \in store[col] : d.id = id}]

Ids(list) == {list[i].id : i \in 1..Len(list)}

\* faulty variant: the handler goes on whatever the answer
deleteLogUnasked(id, yes) ==
  /\ Confirm("Delete this log?", yes)
  /\ route = "/health" /\ pageMounted /\ Idle /\ id \in Ids(logs)
  /\ UNCHANGED notHealth
  /\ calls' = calls \cup {[h |-> "deleteLog", pc |-> "ensure", id |-> id]}
  /\ UNCHANGED <<route, pageMounted, currentUser, db, writes, nextId, clock, listeners, delivered>> /\ Quiet
  /\ UNCHANGED healthVars

\* deleteLog(id): confirm(), then `await ensureSignedIn()`
deleteLog(id, yes) ==
  /\ Confirm("Delete this log?", yes)
  /\ route = "/health" /\ pageMounted /\ Idle /\ id \in Ids(logs)
  /\ UNCHANGED notHealth
  /\ calls' = IF yes THEN calls \cup {[h |-> "deleteLog", pc |-> "ensure", id |-> id]} ELSE calls
  /\ UNCHANGED <<route, pageMounted, currentUser, db, writes, nextId, clock, listeners, delivered>> /\ Quiet
  /\ UNCHANGED healthVars

\* deleteLog resumes after ensureSignedIn and issues deleteDoc
deleteLogEnsured ==
  /\ Background
  /\ route = "/health"
  /\ UNCHANGED notHealth
  /\ \E c \in calls :
       /\ c.h = "deleteLog" /\ c.pc = "ensure"
       /\ \A w \in writes : ~(w.col = "healthLogs" /\ w.id = c.id)
       /\ \E r \in ensureSignedIn(currentUser) :
            IF ~r.ok
            THEN /\ lastAlert' = "Could not delete. Please try again."
                 /\ calls' = calls \ {c}
                 /\ UNCHANGED <<currentUser, db, writes>>
            ELSE /\ currentUser' = r.user
                 /\ db' = IssueDelete(db, "healthLogs", c.id)
                 /\ writes' = writes \cup {DeleteWrite(db, "healthLogs", c.id)}
                 /\ calls' = (calls \ {c}) \cup {[c EXCEPT !.pc = "deleteDoc"]}
                 /\ Quiet
  /\ UNCHANGED <<route, pageMounted, nextId, clock, listeners, delivered>>
  /\ UNCHANGED healthVars

\* deleteDoc settles
deleteLogDone ==
  /\ Background
  /\ route = "/health"
  /\ UNCHANGED notHealth
  /\ \E c \in calls :
       /\ c.h = "deleteLog" /\ c.pc = "deleteDoc"
       /\ \E w \in writes :
            /\ w.col = "healthLogs" /\ w.id = c.id /\ w.op = "delete"
            /\ writes' = writes \ {w}
            /\ calls' = calls \ {c}
            /\ \/ /\ UNCHANGED db /\ Quiet
               \/ /\ db' = Rollback(db, w)
                  /\ lastAlert' = "Could not delete. Please try again."
  /\ UNCHANGED <<route, pageMounted, currentUser, nextId, clock, listeners, delivered>>
  /\ UNCHANGED healthVars

\* clearAll: confirm(), then `await ensureSignedIn()`; the loop runs over the
\* logs of the render that created the handler
clearAll(yes) ==
  /\ Confirm("Clear ALL your health logs? This can't be undone.", yes)
  /\ route = "/health" /\ pageMounted /\ Idle
  /\ UNCHANGED notHealth
  /\ calls' = IF yes THEN calls \cup {[h |-> "clearAll", pc |-> "ensure", id |-> 0,
                                        todo |-> [i \in 1..Len(logs) |-> logs[i].id]]}
              ELSE calls
  /\ UNCHANGED <<route, pageMounted, currentUser, db, writes, nextId, clock, listeners, delivered>> /\ Quiet
  /\ UNCHANGED healthVars

\* for (const l of logs) await deleteDoc(...): the next delete is issued, or
\* the loop is over
ClearAllNext(c, store, ws) ==
  IF c.todo = <<>>
  THEN /\ calls' = calls \ {c}
       /\ db' = store /\ writes' = ws
  ELSE /\ calls' = (calls \ {c}) \cup {[c EXCEPT !.pc = "deleteDoc", !.id = Head(c.todo), !.todo = Tail(c.todo)]}
       /\ db' = IssueDelete(store, "healthLogs", Head(c.todo))
       /\ writes' = ws \cup {DeleteWrite(store, "healthLogs", Head(c.todo))}

\* clearAll resumes after ensureSignedIn
clearAllEnsured ==
  /\ Background
  /\ route = "/health"
  /\ UNCHANGED notHealth
  /\ \E c \in calls :
       /\ c.h = "clearAll" /\ c.pc = "ensure"
       /\ \A w \in writes : w.col # "healthLogs"
       /\ \E r \in ensureSignedIn(currentUser) :
            IF ~r.ok
            THEN /\ lastAlert' = "Failed to clear all logs."
                 /\ calls' = calls \ {c}
                 /\ UNCHANGED <<currentUser, db, writes>>
            ELSE /\ currentUser' = r.user
                 /\ ClearAllNext(c, db, writes)
                 /\ Quiet
  /\ UNCHANGED <<route, pageMounted, nextId, clock, listeners, delivered>>
  /\ UNCHANGED healthVars

\* one deleteDoc of the loop settles
clearAllDeleted ==
  /\ Background
  /\ route = "/health"
  /\ UNCHANGED notHealth
  /\ \E c \in calls :
       /\ c.h = "clearAll" /\ c.pc = "deleteDoc"
       /\ \E w \in writes :
            /\ w.col = "healthLogs" /\ w.id = c.id /\ w.op = "delete"
            /\ \/ /\ ClearAllNext(c, db, writes \ {w})
                  /\ Quiet
               \/ /\ db' = Rollback(db, w)
                  /\ writes' = writes \ {w}
                  /\ calls' = calls \ {c}
                  /\ lastAlert' = "Failed to clear all logs."
  /\ UNCHANGED <<route, pageMounted, currentUser, nextId, clock, listeners, delivered>>
  /\ UNCHANGED healthVars

\* ================================================ Vaccines page (Firestore)
\* useState(null) for editingId: no document has this id
NoId == 0
EmptyForm == [name |-> Empty, dueDate |-> "", notes |-> Empty]
\* what the user types: a blank name, a missing date, a complete form
FormInputs == {[name |-> <<" ">>, dueDate |-> "2025-01-01", notes |-> Empty],
               [name |-> <<"R">>, dueDate |-> "", notes |-> Empty],
               [name |-> <<" ", "P">>, dueDate |-> "2025-02-02", notes |-> <<"n">>]}

\* formatDateInput(date): new Date(date).toISOString().slice(0, 10)
NoDate == [date |-> ""]
formatDateInput(date) == IF date = NoDate THEN "" ELSE date.date

qVacc(uid) == [col |-> VaccinesPath[uid], uid |-> NULL, lim |-> 0]
IsVaccPath(col) == \E u \in Users : col = VaccinesPath[u]

\* the form, the list and its buttons are rendered
Shown == pageMounted /\ ~loadingUser /\ ~loadingData /\ user # NULL

\* faulty variant: the mapping loses the done flag
DecodeNotDone(snap) ==
  [i \in 1..Len(snap) |->
     [id |-> snap[i].id, name |-> snap[i].name, notes |-> snap[i].notes,
      done |-> FALSE, createdAt |-> snap[i].createdAt,
      dueDate |-> toDate(snap[i].dueDate)]]

\* snap.docs.map((d) => ({ id, name, notes, ..., done, createdAt, dueDate }))
Decode(snap) ==
  [i \in 1..Len(snap) |->
     [id |-> snap[i].id, name |-> snap[i].name, notes |-> snap[i].notes,
      done |-> snap[i].done, createdAt |-> snap[i].createdAt,
      dueDate |-> toDate(snap[i].dueDate)]]

\* onAuthStateChanged(auth, (u) => { setUser(u || null); setLoadingUser(false) })
onAuthStateChanged ==
  /\ Background
  /\ route = "/vaccines" /\ pageMounted
  /\ UNCHANGED notVacc
  /\ loadingUser \/ user # currentUser
  /\ user' = currentUser
  /\ loadingUser' = FALSE
  /\ Quiet /\ UNCHANGED <<sharedVars, entries, loadingData, form, editingId, effectUser>>

\* faulty variant: the effect returns no cleanup
UnsubscribedNot(ls, u) == ls

\* the cleanup of the subscribe effect's previous run: unsub()
Unsubscribed(ls, u) == IF u = NULL THEN ls ELSE ls \ {qVacc(u)}
\* a cancelled listener's last snapshot is gone with it
Forgotten(dl, u) == IF u = NULL THEN dl ELSE [dl EXCEPT ![VaccinesPath[u]] = NoSnap]

\* useEffect(() => {...}, [user]): cleanup of the previous run, then the body
subscribeEffect ==
  /\ Background
  /\ route = "/vaccines" /\ pageMounted
  /\ UNCHANGED notVacc
  /\ effectUser # user
  /\ effectUser' = user
  /\ IF user = NULL
     THEN /\ entries' = <<>>
          /\ loadingData' = FALSE
          /\ listeners' = Unsubscribed(listeners, effectUser)
          /\ delivered' = Forgotten(delivered, effectUser)
     ELSE /\ loadingData' = TRUE
          /\ listeners' = Unsubscribed(listeners, effectUser) \cup {qVacc(user)}
          /\ delivered' = Forgotten(delivered, effectUser)
          /\ UNCHANGED entries
  /\ UNCHANGED <<route, pageMounted, currentUser, db, writes, calls, nextId, clock>> /\ Quiet
  /\ UNCHANGED <<user, loadingUser, form, editingId>>

\* both effects' cleanups on unmount
VaccinesUnmount ==
  /\ Background
  /\ route = "/vaccines" /\ pageMounted
  /\ UNCHANGED notVacc
  /\ pageMounted' = FALSE
  /\ listeners' = Unsubscribed(listeners, effectUser)
  /\ delivered' = Forgotten(delivered, effectUser)
  /\ UNCHANGED <<route, currentUser, db, writes, calls, nextId, clock>> /\ Quiet
  /\ UNCHANGED vaccVars

\* onSnapshot's next callback: setEntries(list); setLoadingData(false)
onSnapshotVaccines ==
  /\ Background
  /\ route = "/vaccines"
  /\ UNCHANGED notVacc
  /\ \E q \in listeners :
       /\ IsVaccPath(q.col) /\ HasNews(q)
       /\ LET snap == Query(db, q) IN
            /\ delivered' = [delivered EXCEPT ![q.col] = Got(snap)]
            /\ entries' = Decode(snap)
  /\ loadingData' = FALSE
  /\ UNCHANGED <<route, pageMounted, currentUser, db, writes, calls, nextId, clock, listeners>> /\ Quiet
  /\ UNCHANGED <<user, loadingUser, form, editingId, effectUser>>

\* onSnapshot's error callback: setLoadingData(false); alert(...); the listener is over
onSnapshotError ==
  /\ Background
  /\ route = "/vaccines"
  /\ UNCHANGED notVacc
  /\ \E q \in listeners :
       /\ IsVaccPath(q.col)
       /\ listeners' = listeners \ {q}
  /\ loadingData' = FALSE
  /\ lastAlert' = "Failed to load vaccines"
  /\ UNCHANGED <<route, pageMounted, currentUser, db, writes, calls, nextId, clock, delivered>>
  /\ UNCHANGED <<user, loadingUser, entries, form, editingId, effectUser>>

\* onChange={(e) => setForm((s) => ({ ...s, <field>: e.target.value }))}
setForm(f) ==
  /\ UserOp
  /\ route = "/vaccines" /\ Shown /\ form # f
  /\ UNCHANGED notVacc
  /\ form' = f
  /\ Quiet /\ UNCHANGED <<sharedVars, user, loadingUser, entries, loadingData, editingId, effectUser>>

\* faulty variant: the payload of an edit carries the status too
PayloadWithDone(f) ==
  [name |-> trim(f.name), dueDate |-> TimestampFromInput(f.dueDate), notes |-> f.notes,
   done |-> FALSE]

\* the payload handleAddOrUpdate builds from the form
Payload(f) ==
  [name |-> trim(f.name), dueDate |-> TimestampFromInput(f.dueDate), notes |-> f.notes]

\* updateDoc(ref, fields) is issued: the local document, if any, takes the fields
IssueUpdate(store, col, id, fields) ==
  [store EXCEPT ![col] = {IF d.id = id THEN fields @@ d ELSE d : d \in @}]
UpdateWrite(store, col, id) ==
  [op |-> "update", col |-> col, id |-> id, prev |-> {d \in store[col] : d.id = id}]

\* the form passes `!form.name.trim() || !form.dueDate`
ValidForm(f) == trim(f.name) # Empty /\ f.dueDate # ""

\* handleAddOrUpdate up to `await updateDoc(...)` / `await addDoc(...)`
handleAddOrUpdate ==
  /\ UserOp
  /\ route = "/vaccines" /\ Shown /\ (Idle \/ impatient)
  /\ UNCHANGED notVacc
  /\ IF user = NULL
     THEN /\ lastAlert' = "Please login first."
          /\ UNCHANGED <<db, writes, calls, nextId>>
     ELSE IF ~ValidForm(form)
     THEN /\ lastAlert' = "Please provide a name and due date."
          /\ UNCHANGED <<db, writes, calls, nextId>>
     ELSE IF editingId # NoId
     THEN /\ db' = IssueUpdate(db, VaccinesPath[user], editingId, Payload(form))
          /\ writes' = writes \cup {UpdateWrite(db, VaccinesPath[user], editingId)}
          /\ calls' = calls \cup {[h |-> "handleAddOrUpdate", pc |-> "updateDoc",
                                   col |-> VaccinesPath[user], id |-> editingId]}
          /\ UNCHANGED nextId /\ Quiet
     ELSE /\ CanCreate
          /\ db' = [db EXCEPT ![VaccinesPath[user]] =
                      @ \cup {Payload(form) @@ [id |-> nextId, done |-> FALSE, createdAt |-> 0]}]
          /\ writes' = writes \cup {[op |-> "add", col |-> VaccinesPath[user], id |-> nextId, prev |-> {}]}
          /\ calls' = calls \cup {[h |-> "handleAddOrUpdate", pc |-> "addDoc",
                                   col |-> VaccinesPath[user], id |-> nextId]}
          /\ nextId' = nextId + 1 /\ Quiet
  /\ UNCHANGED <<route, pageMounted, currentUser, clock, listeners, delivered>>
  /\ UNCHANGED vaccVars

\* a write to a document the store holds can be accepted; an update of a
\* missing document is rejected
Accepts(w) == w.op # "update" \/ w.prev # {}

\* the awaited write of handleAddOrUpdate settles
handleAddOrUpdateSettled ==
  /\ Background
  /\ route = "/vaccines"
  /\ UNCHANGED notVacc
  /\ \E c \in calls :
       /\ c.h = "handleAddOrUpdate"
       /\ \E w \in writes :
            /\ w.col = c.col /\ w.id = c.id
            /\ writes' = writes \ {w}
            /\ calls' = calls \ {c}
            /\ \/ /\ Accepts(w)
                  /\ IF w.op = "add"
                     THEN /\ \E t \in Stamps : db' = AckAdd(db, w, t) /\ clock' = t
                          /\ UNCHANGED editingId
                     ELSE /\ editingId' = NoId
                          /\ UNCHANGED <<db, clock>>
                  /\ form' = EmptyForm
                  /\ Quiet
               \/ /\ db' = Rollback(db, w)
                  /\ lastAlert' = "Failed to save"
                  /\ UNCHANGED <<clock, form, editingId>>
  /\ UNCHANGED <<route, pageMounted, currentUser, nextId, listeners, delivered>>
  /\ UNCHANGED <<user, loadingUser, entries, loadingData, effectUser>>

Find(list, id) == CHOOSE e \in Range(list) : e.id = id

\* handleEdit(id): the form is filled from the entry
handleEdit(id) ==
  /\ UserOp
  /\ route = "/vaccines" /\ Shown /\ id \in Ids(entries)
  /\ UNCHANGED notVacc
  /\ editingId' = id
  /\ form' = [name |-> Find(entries, id).name,
              dueDate |-> formatDateInput(Find(entries, id).dueDate),
              notes |-> Find(entries, id).notes]
  /\ Quiet /\ UNCHANGED <<sharedVars, user, loadingUser, entries, loadingData, effectUser>>

\* Cancel: setEditingId(null); setForm({...blank})
cancelEdit ==
  /\ UserOp
  /\ route = "/vaccines" /\ Shown /\ editingId # NoId
  /\ UNCHANGED notVacc
  /\ editingId' = NoId
  /\ form' = EmptyForm
  /\ Quiet /\ UNCHANGED <<sharedVars, user, loadingUser, entries, loadingData, effectUser>>

\* handleToggleDone(id) up to `await updateDoc(doc(colRef, id), { done: !it.done })`
handleToggleDone(id) ==
  /\ UserOp
  /\ route = "/vaccines" /\ Shown /\ Idle /\ id \in Ids(entries)
  /\ UNCHANGED notVacc
  /\ db' = IssueUpdate(db, VaccinesPath[user], id, [done |-> ~Find(entries, id).done])
  /\ writes' = writes \cup {UpdateWrite(db, VaccinesPath[user], id)}
  /\ calls' = calls \cup {[h |-> "handleToggleDone", col |-> VaccinesPath[user], id |-> id]}
  /\ UNCHANGED <<route, pageMounted, currentUser, nextId, clock, listeners, delivered>> /\ Quiet
  /\ UNCHANGED vaccVars

\* the awaited updateDoc of handleToggleDone settles
handleToggleDoneSettled ==
  /\ Background
  /\ route = "/vaccines"
  /\ UNCHANGED notVacc
  /\ \E c \in calls :
       /\ c.h = "handleToggleDone"
       /\ \E w \in writes :
            /\ w.col = c.col /\ w.id = c.id
            /\ writes' = writes \ {w}
            /\ calls' = calls \ {c}
            /\ \/ /\ Accepts(w) /\ UNCHANGED db /\ Quiet
               \/ /\ db' = Rollback(db, w)
                  /\ lastAlert' = "Failed to update status"
  /\ UNCHANGED <<route, pageMounted, currentUser, nextId, clock, listeners, delivered>>
  /\ UNCHANGED vaccVars

\* handleDelete(id): confirm(), then `await deleteDoc(doc(colRef, id))`
handleDelete(id, yes) ==
  /\ Confirm("Delete this vaccine entry?", yes)
  /\ route = "/vaccines" /\ Shown /\ Idle /\ id \in Ids(entries)
  /\ UNCHANGED notVacc
  /\ IF yes
     THEN /\ db' = IssueDelete(db, VaccinesPath[user], id)
          /\ writes' = writes \cup {DeleteWrite(db, VaccinesPath[user], id)}
          /\ calls' = calls \cup {[h |-> "handleDelete", col |-> VaccinesPath[user], id |-> id]}
     ELSE UNCHANGED <<db, writes, calls>>
  /\ UNCHANGED <<route, pageMounted, currentUser, nextId, clock, listeners, delivered>> /\ Quiet
  /\ UNCHANGED vaccVars

\* faulty variant: on success the handler removes the entry from the list itself
handleDeleteSettledOptimistic ==
  /\ Background
  /\ route = "/vaccines"
  /\ UNCHANGED notVacc
  /\ \E c \in calls :
       /\ c.h = "handleDelete"
       /\ \E w \in writes :
            /\ w.col = c.col /\ w.id = c.id
            /\ writes' = writes \ {w}
            /\ calls' = calls \ {c}
            /\ \/ /\ UNCHANGED db /\ Quiet
                  /\ entries' = SelectSeq(entries, LAMBDA it : it.id # c.id)
               \/ /\ db' = Rollback(db, w)
                  /\ lastAlert' = "Failed to delete"
                  /\ UNCHANGED entries
  /\ UNCHANGED <<route, pageMounted, currentUser, nextId, clock, listeners, delivered>>
  /\ UNCHANGED <<user, loadingUser, loadingData, form, editingId, effectUser>>

\* the awaited deleteDoc of handleDelete settles
handleDeleteSettled ==
  /\ Background
  /\ route = "/vaccines"
  /\ UNCHANGED notVacc
  /\ \E c \in calls :
       /\ c.h = "handleDelete"
       /\ \E w \in writes :
            /\ w.col = c.col /\ w.id = c.id
            /\ writes' = writes \ {w}
            /\ calls' = calls \ {c}
            /\ \/ /\ UNCHANGED db /\ Quiet
               \/ /\ db' = Rollback(db, w)
                  /\ lastAlert' = "Failed to delete"
  /\ UNCHANGED <<route, pageMounted, currentUser, nextId, clock, listeners, delivered>>
  /\ UNCHANGED vaccVars

\* Clear all: confirm(), then one deleteDoc per entry, awaited with Promise.all
clearAllVaccines(yes) ==
  /\ Confirm("Clear all vaccines for your account?", yes)
  /\ route = "/vaccines" /\ Shown /\ Idle
  /\ UNCHANGED notVacc
  /\ IF yes /\ entries # <<>>
     THEN /\ db' = [db EXCEPT ![VaccinesPath[user]] = {d \in @ : d.id \notin Ids(entries)}]
          /\ writes' = writes \cup {DeleteWrite(db, VaccinesPath[user], id) : id \in Ids(entries)}
          /\ calls' = calls \cup {[h |-> "clearAll", col |-> VaccinesPath[user], id |-> 0]}
     ELSE UNCHANGED <<db, writes, calls>>
  /\ UNCHANGED <<route, pageMounted, currentUser, nextId, clock, listeners, delivered>> /\ Quiet
  /\ UNCHANGED vaccVars

\* one deleteDoc of Clear all settles; Promise.all resolves with the last
\* success and rejects with the first failure
clearAllVaccinesSettled ==
  /\ Background
  /\ route = "/vaccines"
  /\ UNCHANGED notVacc
  /\ \E w \in writes :
       /\ w.op = "delete" /\ IsVaccPath(w.col)
       /\ writes' = writes \ {w}
       /\ LET waiting == {c \in calls : c.h = "clearAll" /\ c.col = w.col} IN
          \/ /\ UNCHANGED db /\ Quiet
             /\ calls' = IF \E v \in writes \ {w} : v.col = w.col THEN calls ELSE calls \ waiting
             /\ waiting # {} \/ Idle
          \/ /\ db' = Rollback(db, w)
             /\ waiting # {} \/ Idle
             /\ calls' = calls \ waiting
             /\ lastAlert' = IF waiting # {} THEN "Failed to clear" ELSE ""
  /\ UNCHANGED <<route, pageMounted, currentUser, nextId, clock, listeners, delivered>>
  /\ UNCHANGED vaccVars

\* ============================================= Vaccines page (localStorage)
\* faulty variant: the done flag is not written
StringifyNoDone(list) ==
  [i \in 1..Len(list) |->
     <<list[i].id, list[i].name, list[i].dueDate, list[i].notes, FALSE, list[i].createdAt>>]

\* JSON.stringify(entries): one tuple of field values per entry
Stringify(list) ==
  [i \in 1..Len(list) |->
     <<list[i].id, list[i].name, list[i].dueDate, list[i].notes, list[i].done, list[i].createdAt>>]
\* JSON.parse(raw)
Parse(text) ==
  [i \in 1..Len(text) |->
     [id |-> text[i][1], name |-> text[i][2], dueDate |-> text[i][3], notes |-> text[i][4],
      done |-> text[i][5], createdAt |-> text[i][6]]]

NoItem == [kind |-> "none", text |-> <<>>]
Garbage == [kind |-> "garbage", text |-> <<>>]
\* a JSON value that is not an array (null, a number, an object): a value
\* that has no positions 1..n
JsonValue(v) == [i \in {0} |-> v]
\* a slot whose text parses to such a value
Value(v) == [kind |-> "value", text |-> JsonValue(v)]
\* localStorage.setItem(STORAGE_KEY, JSON.stringify(entries))
Persist(list) == [kind |-> "json", text |-> Stringify(list)]
\* the lazy initializer: raw ? JSON.parse(raw) : [], and [] when parsing
\* throws; a value that parses is returned as it is, array or not
Hydrate(item) ==
  CASE item.kind = "json" -> Parse(item.text)
    [] item.kind = "value" -> item.text
    [] OTHER -> <<>>
\* the render computes entries.filter(...): it throws unless entries is an array
Renders(list) == \E n \in 0..(MaxDocs + 1) : DOMAIN list = 1..n

\* new Date(form.dueDate).toISOString(): a full ISO string of that day
toISOString(day) == [fmt |-> "iso", day |-> day]
\* a date-only string, as the date input holds it
DateOnly(day) == [fmt |-> "input", day |-> day]
\* formatDateInput(date) of the localStorage implementation
formatDateInputLocal(date) == date.day

LocalSeed ==
  [id |-> 1, name |-> <<"R">>, dueDate |-> toISOString("2025-01-01"), notes |-> <<>>,
   done |-> FALSE, createdAt |-> 1]
\* what a visit can find in the browser's storage
StoredInits ==
  {NoItem, Garbage, Persist(<<LocalSeed>>), Value("null"), Value("7"), Value("{}")}

\* onChange={(e) => setForm((s) => ({ ...s, <field>: e.target.value }))}
setFormLocal(f) ==
  /\ UserOp
  /\ route = "/vaccines-local" /\ pageMounted /\ form # f
  /\ UNCHANGED <<notLocal, demoUsed>>
  /\ form' = f
  /\ Quiet /\ UNCHANGED <<sharedVars, entries, editingId, stored>>

\* s.map((it) => (it.id === editingId ? { ...it, ...form } : it))
MergeForm(list, id, f) ==
  [i \in 1..Len(list) |->
     IF list[i].id = id
     THEN [name |-> f.name, dueDate |-> DateOnly(f.dueDate), notes |-> f.notes] @@ list[i]
     ELSE list[i]]

\* the entry handleAddOrUpdate creates
NewEntry(f, id, now) ==
  [id |-> id, name |-> trim(f.name), dueDate |-> toISOString(f.dueDate), notes |-> f.notes,
   done |-> FALSE, createdAt |-> now]

\* handleAddOrUpdate of the localStorage implementation, with the persist effect
handleAddOrUpdateLocal ==
  /\ UserOp
  /\ route = "/vaccines-local" /\ pageMounted
  /\ UNCHANGED <<notLocal, demoUsed>>
  /\ IF ~ValidForm(form)
     THEN /\ lastAlert' = "Please provide a name and due date."
          /\ UNCHANGED <<entries, form, editingId, stored, nextId>>
     ELSE /\ IF editingId # NoId
             THEN /\ entries' = MergeForm(entries, editingId, form)
                  /\ editingId' = NoId
                  /\ UNCHANGED nextId
             ELSE /\ CanCreate
                  /\ entries' = <<NewEntry(form, nextId, clock)>> \o entries
                  /\ nextId' = nextId + 1
                  /\ UNCHANGED editingId
          /\ form' = EmptyForm
          /\ stored' = Persist(entries')
          /\ Quiet
  /\ UNCHANGED <<route, pageMounted, currentUser, db, writes, calls, clock, listeners, delivered>>

\* handleEdit(id) of the localStorage implementation
handleEditLocal(id) ==
  /\ UserOp
  /\ route = "/vaccines-local" /\ pageMounted /\ id \in Ids(entries)
  /\ UNCHANGED <<notLocal, demoUsed>>
  /\ editingId' = id
  /\ form' = [name |-> Find(entries, id).name,
              dueDate |-> formatDateInputLocal(Find(entries, id).dueDate),
              notes |-> Find(entries, id).notes]
  /\ Quiet /\ UNCHANGED <<sharedVars, entries, stored>>

\* Cancel: setEditingId(null); setForm({...blank})
cancelEditLocal ==
  /\ UserOp
  /\ route = "/vaccines-local" /\ pageMounted /\ editingId # NoId
  /\ UNCHANGED <<notLocal, demoUsed>>
  /\ editingId' = NoId
  /\ form' = EmptyForm
  /\ Quiet /\ UNCHANGED <<sharedVars, entries, stored>>

\* s.map((it) => (it.id === id ? { ...it, done: !it.done } : it))
ToggleIn(list, id) ==
  [i \in 1..Len(list) |-> IF list[i].id = id THEN [list[i] EXCEPT !.done = ~@] ELSE list[i]]

\* handleToggleDone(id) of the localStorage implementation, with the persist effect
handleToggleDoneLocal(id) ==
  /\ UserOp
  /\ route = "/vaccines-local" /\ pageMounted /\ id \in Ids(entries)
  /\ UNCHANGED <<notLocal, demoUsed>>
  /\ entries' = ToggleIn(entries, id)
  /\ stored' = Persist(entries')
  /\ Quiet /\ UNCHANGED <<sharedVars, form, editingId>>

\* handleDelete(id) of the localStorage implementation, with the persist effect
handleDeleteLocal(id, yes) ==
  /\ Confirm("Delete this vaccine entry?", yes)
  /\ route = "/vaccines-local" /\ pageMounted /\ id \in Ids(entries)
  /\ UNCHANGED <<notLocal, demoUsed>>
  /\ IF yes
     THEN /\ entries' = SelectSeq(entries, LAMBDA it : it.id # id)
          /\ stored' = Persist(entries')
     ELSE UNCHANGED <<entries, stored>>
  /\ Quiet /\ UNCHANGED <<sharedVars, form, editingId>>

\* DEMO_RECOMMENDED, cut down to one item
DemoRecommended == <<[name |-> <<"B">>, note |-> <<"c">>]>>
\* today + dueInWeeks * 7 days
DemoDue == "2025-03-03"
\* the entries addDemoRecommended makes of it, with ids from first on
DemoEntries(first, now) ==
  [i \in 1..Len(DemoRecommended) |->
     [id |-> first + i - 1, name |-> DemoRecommended[i].name,
      dueDate |-> toISOString(DemoDue),
      notes |-> DemoRecommended[i].note, done |-> FALSE, createdAt |-> now]]

\* addDemoRecommended of the localStorage implementation, with the persist effect
addDemoRecommendedLocal ==
  /\ UserOp
  /\ route = "/vaccines-local" /\ pageMounted /\ ~demoUsed
  /\ nextId + Len(DemoRecommended) <= FirstNewId + MaxDocs
  /\ UNCHANGED notLocal
  /\ entries' = DemoEntries(nextId, clock) \o entries
  /\ nextId' = nextId + Len(DemoRecommended)
  /\ demoUsed' = TRUE
  /\ stored' = Persist(entries')
  /\ Quiet /\ UNCHANGED <<form, editingId>>
  /\ UNCHANGED <<route, pageMounted, currentUser, db, writes, calls, clock, listeners, delivered>>

\* Clear all: setEntries([]); localStorage.removeItem(STORAGE_KEY); the persist
\* effect then runs for the new array
clearAllLocal ==
  /\ UserOp
  /\ route = "/vaccines-local" /\ pageMounted
  /\ UNCHANGED <<notLocal, demoUsed>>
  /\ entries' = <<>>
  /\ stored' = Persist(<<>>)
  /\ Quiet /\ UNCHANGED <<sharedVars, form, editingId>>

\* the page is left
LocalUnmount ==
  /\ Background
  /\ route = "/vaccines-local" /\ pageMounted
  /\ UNCHANGED <<notLocal, demoUsed>>
  /\ pageMounted' = FALSE
  /\ UNCHANGED <<route, currentUser, db, writes, calls, nextId, clock, listeners, delivered>> /\ Quiet
  /\ UNCHANGED <<entries, form, editingId, stored>>

\* ================================================================ Home page
NoProfile == [displayName |-> Empty, petPhotoUrl |-> Empty]
NameInputs == {<<" ", "B">>}
qProfile(u) == [col |-> "profiles", uid |-> u, lim |-> 0]

\* the effect's async body resumes after `await ensureSignedIn()`
HomeSetupResume ==
  /\ Background
  /\ route = "/" /\ homePc = "ensure"
  /\ UNCHANGED notHome
  /\ \E r \in ensureSignedIn(currentUser) :
       IF r.ok
       THEN /\ currentUser' = r.user
            /\ homeUid' = r.user
            /\ listeners' = listeners \cup {qProfile(r.user)}
            /\ delivered' = [delivered EXCEPT !["profiles"] = NoSnap]
            /\ homeUnsub' = "listener"
       ELSE /\ UNCHANGED <<currentUser, homeUid, listeners, delivered, homeUnsub>>
  /\ homePc' = "done"
  /\ UNCHANGED <<route, pageMounted, db, writes, calls, nextId, clock>> /\ Quiet
  /\ UNCHANGED profile

\* the effect's cleanup: unsub()
HomeUnmount ==
  /\ Background
  /\ route = "/" /\ pageMounted
  /\ UNCHANGED notHome
  /\ pageMounted' = FALSE
  /\ listeners' = IF homeUnsub = "listener" THEN {q \in listeners : q.col # "profiles"} ELSE listeners
  /\ UNCHANGED <<route, currentUser, db, writes, calls, nextId, clock, delivered>> /\ Quiet
  /\ UNCHANGED homeVars

\* (snap) => { if (snap.exists()) setProfile((p) => ({ ...p, ...snap.data() })) }
onSnapshotProfile ==
  /\ Background
  /\ route = "/"
  /\ UNCHANGED notHome
  /\ \E q \in listeners :
       /\ q.col = "profiles" /\ HasNews(q)
       /\ LET snap == Query(db, q) IN
            /\ delivered' = [delivered EXCEPT ![q.col] = Got(snap)]
            /\ profile' = IF snap # <<>>
                          THEN [profile EXCEPT !.displayName = snap[1].displayName]
                          ELSE profile
  /\ UNCHANGED <<route, pageMounted, currentUser, db, writes, calls, nextId, clock, listeners>> /\ Quiet
  /\ UNCHANGED <<homeUid, homeUnsub, homePc>>

\* handleNameChange(val) up to `await setDoc(..., { merge: true })`
handleNameChange(val) ==
  /\ UserOp
  /\ route = "/" /\ pageMounted /\ Idle
  /\ UNCHANGED notHome
  /\ profile' = [profile EXCEPT !.displayName = val]
  /\ IF homeUid = NULL
     THEN UNCHANGED <<db, writes>>
     ELSE /\ db' = [db EXCEPT !["profiles"] =
                      {d \in @ : d.id # homeUid}
                      \cup {[id |-> homeUid, byUid |-> homeUid, displayName |-> trim(val), createdAt |-> 1]}]
          /\ writes' = writes \cup {[op |-> "set", col |-> "profiles", id |-> homeUid,
                                     prev |-> {d \in db["profiles"] : d.id = homeUid}]}
  /\ UNCHANGED <<route, pageMounted, currentUser, calls, nextId, clock, listeners, delivered>> /\ Quiet
  /\ UNCHANGED <<homeUid, homeUnsub, homePc>>

\* the awaited setDoc of handleNameChange settles
handleNameChangeSettled ==
  /\ Background
  /\ route = "/"
  /\ UNCHANGED notHome
  /\ \E w \in writes :
       /\ w.op = "set"
       /\ writes' = writes \ {w}
       /\ \/ UNCHANGED db
          \/ db' = Rollback(db, w)
  /\ UNCHANGED <<route, pageMounted, currentUser, calls, nextId, clock, listeners, delivered>> /\ Quiet
  /\ UNCHANGED homeVars

\* ----------------------------------------------------------------- Init
\* ============================================== Health page: analyzeNow
\* analyzeNow up to `await fetch(...)`; the button is disabled while analyzing
\* and without logs
analyzeNow ==
  /\ UserOp
  /\ route = "/health" /\ pageMounted /\ ~analyzing /\ logs # <<>>
  /\ analyzing' = TRUE
  /\ analysis' = NULL
  /\ calls' = calls \cup {[h |-> "analyzeNow", pc |-> "fetch", id |-> 0]}
  /\ Quiet
  /\ UNCHANGED <<route, pageMounted, currentUser, db, writes, nextId, clock, listeners, delivered>>
  /\ UNCHANGED <<logs, healthLoading, mounted, unsub, healthPc, healthForm>>
  /\ UNCHANGED <<lostVars, vaccVars, localVars, homeVars, diseaseVars>>

\* faulty variant: the catch alerts and the flag is left as it is
AnalyzeNowCatchStuck ==
  /\ lastAlert' = "Analyze failed. Start backend or check VITE_API_BASE."
  /\ UNCHANGED <<analysis, analyzing>>

\* catch (err) { alert(...) } finally { setAnalyzing(false) }
AnalyzeNowCatch ==
  /\ lastAlert' = "Analyze failed. Start backend or check VITE_API_BASE."
  /\ UNCHANGED analysis
  /\ analyzing' = FALSE

\* the fetch settles: a response that is ok, a response that is not (or a body
\* that is not JSON), or a rejected fetch
analyzeNowSettled ==
  /\ Background
  /\ route = "/health"
  /\ \E c \in calls :
       /\ c.h = "analyzeNow"
       /\ calls' = calls \ {c}
       /\ \/ /\ analysis' = "data" /\ analyzing' = FALSE /\ Quiet
          \/ AnalyzeNowCatch
  /\ UNCHANGED <<route, pageMounted, currentUser, db, writes, nextId, clock, listeners, delivered>>
  /\ UNCHANGED <<logs, healthLoading, mounted, unsub, healthPc, healthForm>>
  /\ UNCHANGED <<lostVars, vaccVars, localVars, homeVars, diseaseVars>>

\* ============================================================ Disease page
Images == {"img1", "img2"}
NoRes == [img |-> NULL]
\* the outcomes of the request: a result, the 422 of the backend, another
\* error status, a rejected fetch
Outcomes == {"ok", "422", "status", "throw"}

diseaseFrame ==
  /\ UNCHANGED <<route, pageMounted, currentUser, db, writes, nextId, clock, listeners, delivered>>
  /\ UNCHANGED notDisease

\* onBase64={(dataUrl, file) => { setImgB64(dataUrl); ...; setRes(null); setErr(null) }}
onBase64(dataUrl) ==
  /\ imgB64' = dataUrl
  /\ res' = NoRes
  /\ err' = ""

\* UploadBox handleFile up to `await readFileAsDataUrl(file)`
handleFileUpload(img) ==
  /\ UserOp
  /\ route = "/disease" /\ pageMounted
  /\ \A c \in calls : c.h # "handleFile"
  /\ calls' = calls \cup {[h |-> "handleFile", pc |-> "read", id |-> 0, img |-> img]}
  /\ Quiet /\ UNCHANGED diseaseVars
  /\ diseaseFrame

\* the FileReader settles: onBase64(dataUrl, file), or the read failed and
\* only UploadBox shows an error
handleFileRead ==
  /\ Background
  /\ route = "/disease"
  /\ \E c \in calls :
       /\ c.h = "handleFile"
       /\ calls' = calls \ {c}
       /\ \/ onBase64(c.img) /\ UNCHANGED diseaseLoading
          \/ UNCHANGED diseaseVars
  /\ Quiet
  /\ diseaseFrame

\* UploadBox reset: onBase64(null, null)
reset ==
  /\ UserOp
  /\ route = "/disease" /\ pageMounted /\ imgB64 # NULL
  /\ onBase64(NULL) /\ UNCHANGED <<diseaseLoading, calls>>
  /\ Quiet
  /\ diseaseFrame

\* the Clear button: setImgB64(null); setFileName(""); setRes(null); setErr(null)
clearAllDisease ==
  /\ UserOp
  /\ route = "/disease" /\ pageMounted
  /\ imgB64 # NULL \/ res # NoRes \/ err # ""
  /\ imgB64' = NULL /\ res' = NoRes /\ err' = ""
  /\ UNCHANGED <<diseaseLoading, calls>>
  /\ Quiet
  /\ diseaseFrame

\* analyze up to its first await; the button is disabled without an image and
\* while loading, so the "Please upload a clear photo first." branch is not taken
analyze ==
  /\ UserOp
  /\ route = "/disease" /\ pageMounted /\ imgB64 # NULL /\ ~diseaseLoading
  /\ err' = ""
  /\ diseaseLoading' = TRUE
  /\ res' = NoRes
  /\ calls' = calls \cup {[h |-> "analyze", pc |-> "predict", id |-> 0, img |-> imgB64]}
  /\ UNCHANGED imgB64
  /\ Quiet
  /\ diseaseFrame

\* faulty variant: the 422 branch returns without clearing the flag
AnalyzeRejectedStuck ==
  /\ err' = "not_pet_image"
  /\ UNCHANGED <<res, diseaseLoading>>

\* if (resp.status === 422) { setErr(msg); setLoading(false); return; }
AnalyzeRejected ==
  /\ err' = "not_pet_image"
  /\ UNCHANGED res
  /\ diseaseLoading' = FALSE

\* the request settles: setRes(uiRes), the 422 branch, or the catch; then
\* setLoading(false)
analyzeSettled ==
  /\ Background
  /\ route = "/disease"
  /\ \E c \in calls :
       /\ c.h = "analyze"
       /\ calls' = calls \ {c}
       /\ \E o \in Outcomes :
            CASE o = "ok" -> res' = [img |-> c.img] /\ UNCHANGED err /\ diseaseLoading' = FALSE
              [] o = "422" -> AnalyzeRejected
              [] o = "status" -> err' = "Server error" /\ UNCHANGED res /\ diseaseLoading' = FALSE
              [] OTHER -> err' = "Backend error" /\ UNCHANGED res /\ diseaseLoading' = FALSE
  /\ UNCHANGED imgB64
  /\ Quiet
  /\ diseaseFrame

InitRest ==
  /\ ops = 0
  /\ currentUser = NULL
  /\ writes = {}
  /\ calls = {}
  /\ nextId = FirstNewId
  /\ clock = 1
  /\ listeners = {}
  /\ delivered = [c \in Collections |-> NoSnap]
  /\ lastAlert = "" /\ answer = NoAnswer
  /\ mode = "lost" /\ file = NULL /\ fileName = Empty
  /\ location = Empty /\ saving = FALSE
  /\ myPosts = <<>> /\ myLoading = TRUE /\ isMounted = TRUE
  /\ petName = Empty /\ results = <<>> /\ loading = FALSE /\ batches = <<>>
  /\ unsubscribes = {} /\ setupPc = "ensure"
  /\ logs = <<>> /\ healthLoading = TRUE /\ mounted = TRUE
  /\ unsub = "noop" /\ healthPc = "ensure" /\ healthForm = EmptyHealthForm
  /\ user = NULL /\ loadingUser = TRUE /\ loadingData = FALSE
  /\ form = EmptyForm /\ editingId = NoId /\ effectUser = NULL
  /\ stored \in (IF route = "/vaccines-local" THEN StoredInits ELSE {NoItem})
  /\ entries = Hydrate(stored) /\ demoUsed = FALSE
  \* a render that throws takes the whole page down: there is no error boundary
  /\ pageMounted = (route = "/vaccines-local" => Renders(entries))
  /\ homeUid = NULL /\ profile = NoProfile /\ homeUnsub = "noop" /\ homePc = "ensure"
  /\ analyzing = FALSE /\ analysis = NULL
  /\ imgB64 = NULL /\ diseaseLoading = FALSE /\ res = NoRes /\ err = ""

Init ==
  /\ route \in Routes
  /\ db = SeedStore
  /\ impatient = FALSE
  /\ InitRest

\* the pages whose create form stays enabled, used by a user who does not wait
ImpatientInit ==
  /\ route \in {"/health", "/vaccines"}
  /\ db = SeedStore
  /\ impatient = TRUE
  /\ InitRest

\* the Lost page over a store of reports that differ in name and location
SearchInit ==
  /\ route = "/lost"
  /\ db \in SearchStores
  /\ impatient = FALSE
  /\ InitRest

AuthNext ==
  \/ \E u \in Users : signIn(u)
  \/ signOut

LostNext ==
  \/ LostSetupResume
  \/ LostUnmount
  \/ onSnapshotLost
  \/ onSnapshotFound
  \/ onSnapshotLostError
  \/ \E m \in {"lost", "found"} : setMode(m)
  \/ handleFile
  \/ \E v \in LostInputs : setLocation(v)
  \/ saveReport
  \/ saveReportEnsured
  \/ saveReportUploaded
  \/ saveReportAdded

HealthNext ==
  \/ HealthSetupResume
  \/ HealthUnmount
  \/ onSnapshotHealth
  \/ onSnapshotHealthError
  \/ \E f \in HealthForms : setHealthForm(f)
  \/ submitLog
  \/ submitLogEnsured
  \/ submitLogAdded
  \/ \E id \in 1..(FirstNewId + MaxDocs), yes \in BOOLEAN : deleteLog(id, yes)
  \/ deleteLogEnsured
  \/ deleteLogDone
  \/ \E yes \in BOOLEAN : clearAll(yes)
  \/ clearAllEnsured
  \/ clearAllDeleted

VaccinesNext ==
  \/ onAuthStateChanged
  \/ subscribeEffect
  \/ VaccinesUnmount
  \/ onSnapshotVaccines
  \/ onSnapshotError
  \/ \E f \in FormInputs : setForm(f)
  \/ handleAddOrUpdate
  \/ handleAddOrUpdateSettled
  \/ \E id \in 1..(FirstNewId + MaxDocs) : handleEdit(id)
  \/ cancelEdit
  \/ \E id \in 1..(FirstNewId + MaxDocs) : handleToggleDone(id)
  \/ handleToggleDoneSettled
  \/ \E id \in 1..(FirstNewId + MaxDocs), yes \in BOOLEAN : handleDelete(id, yes)
  \/ handleDeleteSettled
  \/ \E yes \in BOOLEAN : clearAllVaccines(yes)
  \/ clearAllVaccinesSettled

LocalNext ==
  \/ \E f \in FormInputs : setFormLocal(f)
  \/ handleAddOrUpdateLocal
  \/ \E id \in 1..(FirstNewId + MaxDocs) : handleEditLocal(id)
  \/ cancelEditLocal
  \/ \E id \in 1..(FirstNewId + MaxDocs) : handleToggleDoneLocal(id)
  \/ \E id \in 1..(FirstNewId + MaxDocs), yes \in BOOLEAN : handleDeleteLocal(id, yes)
  \/ clearAllLocal
  \/ addDemoRecommendedLocal
  \/ LocalUnmount

HomeNext ==
  \/ HomeSetupResume
  \/ HomeUnmount
  \/ onSnapshotProfile
  \/ \E val \in NameInputs : handleNameChange(val)
  \/ handleNameChangeSettled

DiseaseNext ==
  \/ \E img \in Images : handleFileUpload(img)
  \/ handleFileRead
  \/ reset
  \/ clearAllDisease
  \/ analyze
  \/ analyzeSettled

Next == AuthNext \/ LostNext \/ HealthNext \/ VaccinesNext \/ LocalNext \/ HomeNext \/ DiseaseNext

\* the match search of the Lost page, and the post that can be in flight beside it
SearchNext ==
  \/ \E v \in PetNames : setPetName(v)
  \/ \E v \in LostInputs : setLocation(v)
  \/ findMatches
  \/ getDocsSettled
  \/ findMatchesResolved
  \/ saveReport
  \/ saveReportEnsured
  \/ saveReportAdded

Spec == Init /\ [][Next]_vars

\* The Firestore Vaccines page alone, with snapshots delivered fairly: a
\* listener that has a snapshot to deliver does deliver it.
VaccinesInit == Init /\ route = "/vaccines"
FairVaccines ==
  VaccinesInit /\ [][AuthNext \/ VaccinesNext]_vars /\ WF_vars(onSnapshotVaccines)

SearchSpec == SearchInit /\ [][SearchNext]_vars

\* signing in, filling the form and submitting it
ImpatientNext ==
  \/ \E u \in Users : signIn(u)
  \/ onAuthStateChanged
  \/ subscribeEffect
  \/ onSnapshotVaccines
  \/ \E f \in FormInputs : setForm(f)
  \/ handleAddOrUpdate
  \/ handleAddOrUpdateSettled
  \/ HealthSetupResume
  \/ onSnapshotHealth
  \/ \E f \in HealthForms : setHealthForm(f)
  \/ submitLog
  \/ submitLogEnsured
  \/ submitLogAdded

ImpatientSpec == ImpatientInit /\ [][ImpatientNext]_vars

\* the pages with an action behind a busy flag
BusyInit ==
  /\ route \in {"/lost", "/health", "/disease"}
  /\ db = SeedStore
  /\ impatient = FALSE
  /\ InitRest

BusyNext ==
  \/ \E v \in LostInputs : setLocation(v)
  \/ handleFile
  \/ saveReport
  \/ saveReportEnsured
  \/ saveReportUploaded
  \/ saveReportAdded
  \/ findMatches
  \/ getDocsSettled
  \/ findMatchesResolved
  \/ HealthSetupResume
  \/ onSnapshotHealth
  \/ analyzeNow
  \/ analyzeNowSettled
  \/ DiseaseNext

BusySpec == BusyInit /\ [][BusyNext]_vars

\* ================================================================= claims
\* the last snapshot a collection's listener delivered, empty before the first
Snap(col) == delivered[col].docs

Descending(list) == \A i \in 1..(Len(list) - 1) : list[i].createdAt >= list[i + 1].createdAt
StrictlyDescending(list) == \A i \in 1..(Len(list) - 1) : list[i].createdAt > list[i + 1].createdAt

\* every write is settled and every snapshot of the page's live listeners delivered
LostSettled ==
  /\ route = "/lost" /\ isMounted /\ writes = {} /\ calls = {}
  /\ \E u \in Users : {qLost(u), qFound(u)} \subseteq listeners
  /\ \A q \in listeners : ~HasNews(q)
HealthSettled ==
  /\ route = "/health" /\ mounted /\ writes = {} /\ calls = {}
  /\ \E u \in Users : qHealth(u) \in listeners
  /\ \A q \in listeners : ~HasNews(q)
VaccinesSettled ==
  /\ route = "/vaccines" /\ pageMounted /\ writes = {} /\ calls = {}
  /\ user # NULL /\ effectUser = user /\ qVacc(user) \in listeners
  /\ \A q \in listeners : ~HasNews(q)

\* ---- C1
\* C1: while the Lost page is mounted, myPosts holds exactly the entries of the
\* latest lostPets snapshot and of the latest foundPets snapshot, each tagged
\* with its collection (nothing for a listener that has not delivered yet), each once.
C1_MergeKeepsSlices ==
  (route = "/lost" /\ isMounted) =>
    /\ Range(myPosts) = Range(Tagged(Snap("lostPets"), "lostPets"))
                        \cup Range(Tagged(Snap("foundPets"), "foundPets"))
    /\ Len(myPosts) = Len(Snap("lostPets")) + Len(Snap("foundPets"))

\* both listeners have delivered entries and one of them is stale again
C1_BothSlicesOneStale ==
  /\ route = "/lost" /\ isMounted
  /\ Snap("lostPets") # <<>> /\ Snap("foundPets") # <<>>
  /\ \E q \in listeners : HasNews(q)
  /\ \E i \in 1..Len(myPosts) : myPosts[i].id >= FirstNewId

C3_DisplayedEntriesAreOwn ==
  (route = "/vaccines" /\ pageMounted /\ ~loadingUser /\ ~loadingData
     /\ user # NULL /\ effectUser = user)
  => Range(entries) \subseteq Range(Decode(Snap(VaccinesPath[user])))

\* ---- C4
\* C4: while the Health or the Lost page is mounted, every record of its Mirror
\* is owned by the current session identity.
C4_MirrorOwnedBySession ==
  /\ (route = "/health" /\ pageMounted) => \A i \in 1..Len(logs) : logs[i].byUid = currentUser
  /\ (route = "/lost" /\ pageMounted) => \A i \in 1..Len(myPosts) : myPosts[i].byUid = currentUser

\* ---- C5
\* C5: once the Lost, Health or Home page is unmounted and its setup has run to
\* its end, none of its subscriptions is active.
C5_UnmountCancelsAll ==
  /\ (route = "/lost" /\ ~pageMounted /\ setupPc = "done") => listeners = {}
  /\ (route = "/health" /\ ~pageMounted /\ healthPc = "done") => listeners = {}
  /\ (route = "/" /\ ~pageMounted /\ homePc = "done") => listeners = {}

\* ---- C6
\* C6: no step taken after the Lost or Health view has unmounted changes its
\* Mirror, a snapshot delivery included.
C6_NoChangeAfterUnmount ==
  [][/\ (route = "/lost" /\ ~isMounted) => myPosts' = myPosts
     /\ (route = "/health" /\ ~mounted) => logs' = logs]_vars

\* a snapshot with records was delivered to the unmounted view and left out
C6_SnapshotAfterUnmount ==
  \/ route = "/health" /\ ~mounted /\ Snap("healthLogs") # <<>> /\ logs = <<>>
  \/ route = "/lost" /\ ~isMounted /\ Snap("lostPets") # <<>> /\ myPosts = <<>>

\* ---- C7
\* C7 (amended): the Firestore Vaccines page has at most one subscription at any
\* time and none after unmount; once the subscribe effect has run for the
\* current value of user, a subscription is for that user, and for a null user
\* there is none and the Mirror is empty.
C7_OneSubscriptionOfEffectUser ==
  route = "/vaccines" =>
    /\ Cardinality(listeners) <= 1
    /\ ~pageMounted => listeners = {}
    /\ (pageMounted /\ effectUser = user) =>
         IF user = NULL THEN listeners = {} /\ entries = <<>>
         ELSE listeners \subseteq {qVacc(user)}

\* after a switch from A to B the only subscription is B's, A's entries still listed
C7_SwitchedToB ==
  /\ route = "/vaccines" /\ pageMounted
  /\ user = "B" /\ effectUser = "B" /\ listeners = {qVacc("B")}
  /\ entries # <<>>

\* C7 as stated: a subscription is always for the current user, and while the
\* user is null there is none and the Mirror is empty
C7_AlwaysOfCurrentUser ==
  (route = "/vaccines" /\ pageMounted) =>
    /\ Cardinality(listeners) <= 1
    /\ IF user = NULL THEN listeners = {} /\ entries = <<>>
       ELSE listeners \subseteq {qVacc(user)}

\* ---- C8
\* C8: on the Firestore Vaccines, Health and Lost pages a step changes the
\* Mirror only if it delivers a snapshot, the new Mirror being made from it, or
\* if it is the Vaccines reset to empty for a null user.
C8_MirrorChangesOnlyBySnapshot ==
  [][/\ (route = "/vaccines" /\ entries' # entries) =>
          \/ user = NULL /\ entries' = <<>>
          \/ \E u \in Users :
               /\ delivered'[VaccinesPath[u]] # delivered[VaccinesPath[u]]
               /\ delivered'[VaccinesPath[u]] # NoSnap
               /\ entries' = Decode(delivered'[VaccinesPath[u]].docs)
     /\ (route = "/health" /\ logs' # logs) =>
          /\ delivered'["healthLogs"] # delivered["healthLogs"]
          /\ logs' = delivered'["healthLogs"].docs
     /\ (route = "/lost" /\ myPosts' # myPosts) =>
          \/ /\ delivered'["lostPets"] # delivered["lostPets"]
             /\ myPosts' = MergeLost(myPosts, Tagged(delivered'["lostPets"].docs, "lostPets"))
          \/ /\ delivered'["foundPets"] # delivered["foundPets"]
             /\ myPosts' = MergeFound(myPosts, Tagged(delivered'["foundPets"].docs, "foundPets"))]_vars

\* a created record is acknowledged by the store and not yet in the Mirror
C8_CreatedNotYetMirrored ==
  /\ route = "/vaccines" /\ pageMounted /\ writes = {} /\ calls = {}
  /\ user # NULL /\ qVacc(user) \in listeners
  /\ \E d \in db[VaccinesPath[user]] : d.id >= FirstNewId /\ d.id \notin Ids(entries)

\* ---- C9
VaccIds == {1} \cup (FirstNewId..(FirstNewId + MaxDocs - 1))
Active(u) == qVacc(u) \in listeners
InStore(u, id) == \E d \in db[VaccinesPath[u]] : d.id = id
DoneInStore(u, id) == \E d \in db[VaccinesPath[u]] : d.id = id /\ d.done
InMirror(id) == id \in Ids(entries)
DoneInMirror(id) == \E i \in 1..Len(entries) : entries[i].id = id /\ entries[i].done

\* C9: with snapshots delivered fairly and while u's subscription lasts, a
\* record created in u's collection comes to be in the Mirror, never twice; a
\* record toggled to done comes to be shown done; a deleted record comes to be
\* absent, and an entry leaves the Mirror only in a snapshot delivery (or the
\* reset for a null user).
C9_EndToEnd ==
  /\ [](\A i, j \in 1..Len(entries) : entries[i].id = entries[j].id => i = j)
  /\ [][\A id \in VaccIds :
          (InMirror(id) /\ id \notin Ids(entries')) =>
             \/ user = NULL /\ entries' = <<>>
             \/ \E u \in Users : /\ delivered'[VaccinesPath[u]] # delivered[VaccinesPath[u]]
                                 /\ entries' = Decode(delivered'[VaccinesPath[u]].docs)]_vars
  /\ \A u \in Users : \A id \in VaccIds :
       /\ (Active(u) /\ InStore(u, id) /\ id >= FirstNewId)
            ~> (InMirror(id) \/ ~Active(u) \/ ~InStore(u, id))
       /\ (Active(u) /\ DoneInStore(u, id))
            ~> (DoneInMirror(id) \/ ~Active(u) \/ ~DoneInStore(u, id))
       /\ (Active(u) /\ ~InStore(u, id))
            ~> (~InMirror(id) \/ ~Active(u) \/ InStore(u, id))

\* the Mirror shows the created record as done and no longer the deleted one
C9_CreatedToggledDeleted ==
  /\ route = "/vaccines" /\ pageMounted /\ user = "A" /\ Active("A")
  /\ writes = {} /\ ~InStore("A", 1) /\ ~InMirror(1)
  /\ DoneInMirror(FirstNewId)

\* ---- C10
\* C10: the step in which a Lost report is posted successfully leaves the
\* input form cleared.
C10_PostClearsForm ==
  [][lastAlert' = "Posted successfully!" => (location' = Empty /\ file' = NULL)]_vars

\* ---- C11
\* a store call is issued by this step
IssuesCall == writes' \ writes # {}
\* a handler suspended at `await ensureSignedIn()` resumes with a rejection:
\* no session identity before the step and none after it
EnsureRejected ==
  /\ currentUser = NULL /\ currentUser' = NULL
  /\ \E c \in calls : c.pc = "ensure" /\ c \notin calls'

\* C11: a mutation needs a resolved identity.  On the Firestore Vaccines page no
\* step issues a store call while the page has no user or the session has no
\* identity; on the Health and Lost pages a store call is issued only by a
\* handler that has passed ensureSignedIn, and a handler whose ensureSignedIn
\* is rejected issues no store call, changes nothing in the store and raises
\* an alert.
C11_MutationNeedsIdentity ==
  [][/\ (route = "/vaccines" /\ (user = NULL \/ currentUser = NULL)) => ~IssuesCall
     /\ (route \in {"/health", "/lost"} /\ IssuesCall) =>
          \E c \in calls : \/ c.pc = "ensure" /\ currentUser' # NULL
                           \/ c.pc \in {"upload", "deleteDoc"}
     /\ (route \in {"/health", "/lost"} /\ EnsureRejected) =>
          ~IssuesCall /\ db' = db /\ lastAlert' # ""]_vars

\* ---- C12
DeletePrompts == {"Delete this vaccine entry?", "Delete this log?"}
\* the user answered no to the confirmation of a single-record delete
Declined == answer' \in [text : DeletePrompts, yes : {FALSE}]
\* the user answered yes to it
Agreed == answer' \in [text : DeletePrompts, yes : {TRUE}]

\* C12: a step in which the user answers no to the confirmation of a
\* single-record delete issues no delete call, starts no handler and removes
\* nothing from the Mirror, the store or the local slot; and a single-record
\* delete is started (Firestore Vaccines, Health) or carried out (localStorage)
\* only in a step in which the user answers yes.
C12_DeleteNeedsYes ==
  [][/\ Declined =>
          /\ writes' = writes /\ calls' = calls /\ db' = db
          /\ entries' = entries /\ logs' = logs /\ stored' = stored
     /\ (\E c \in calls' : /\ c.h \in {"deleteLog", "handleDelete"}
                            /\ \A b \in calls : b.h # c.h) => Agreed
     /\ (route = "/vaccines-local" /\ pageMounted /\ entries' # <<>>
           /\ Ids(entries) \ Ids(entries') # {}) => Agreed]_vars

\* the user has just declined to delete an entry, which is still listed and stored
C12_DeclinedAndKept ==
  /\ answer \in [text : DeletePrompts, yes : {FALSE}]
  /\ \/ route = "/vaccines" /\ InMirror(1) /\ InStore("A", 1)
     \/ route = "/health" /\ logs # <<>> /\ Ids(logs) \subseteq {d.id : d \in db["healthLogs"]}
     \/ route = "/vaccines-local" /\ entries # <<>> /\ stored = Persist(entries)
  /\ writes = {} /\ calls = {}

\* ---- C13
\* write w is seen to be rejected in this step: it is settled and its local
\* effect undone (a write that had changed nothing leaves nothing to undo)
Rejected(w) ==
  /\ w \in writes /\ w \notin writes'
  /\ db' = Rollback(db, w) /\ db' # db
\* the handler invocation that awaits write w
Awaits(c, w) ==
  IF route = "/vaccines"
  THEN c.h \in {"handleAddOrUpdate", "handleToggleDone", "handleDelete"} /\ c.col = w.col /\ c.id = w.id
  ELSE /\ c.h \in {"submitLog", "deleteLog", "saveReport"}
       /\ c.pc \in {"addDoc", "deleteDoc"} /\ c.id = w.id

ListenerError ==
  /\ listeners' # listeners /\ listeners' \subseteq listeners
  /\ pageMounted' = pageMounted /\ effectUser' = effectUser

\* C14: the step in which a subscription of the Firestore Vaccines, Health or
\* Lost page fails raises a message for the user, leaves the Mirror as the
\* last snapshot left it, and leaves the page's loading flag false.
C14_SubscriptionErrorShown ==
  [][(route \in {"/vaccines", "/health", "/lost"} /\ ListenerError) =>
        /\ lastAlert' # ""
        /\ entries' = entries /\ logs' = logs /\ myPosts' = myPosts
        /\ route = "/vaccines" => ~loadingData'
        /\ (route = "/health" /\ mounted) => ~healthLoading'
        /\ (route = "/lost" /\ isMounted) => ~myLoading']_vars

\* ---- C15
\* the user has confirmed Clear all on the Firestore Vaccines page in this step
ClearAllAgreed == answer' = [text |-> "Clear all vaccines for your account?", yes |-> TRUE]

\* C15: a confirmed Clear all issues one delete call for every record of the
\* Mirror, whether or not some of them fail: on the Vaccines page the step of
\* the confirmation issues exactly one delete per entry; on the Health page a
\* clearAll that has begun to delete ends only when it has issued the delete
\* of every log it was started with.
C15_ClearAllDeletesEach ==
  [][/\ (route = "/vaccines" /\ ClearAllAgreed) =>
          /\ {w.id : w \in writes' \ writes} = Ids(entries)
          /\ Cardinality(writes' \ writes) = Len(entries)
          /\ \A w \in writes' \ writes : w.op = "delete"
     /\ route = "/health" =>
          \A c \in calls :
            (c.h = "clearAll" /\ c.pc = "deleteDoc" /\ \A b \in calls' : b.h # "clearAll")
              => c.todo = <<>>]_vars

C17_HydrationNeverCrashes ==
  route = "/vaccines-local" =>
    /\ Renders(entries)
    /\ (stored.kind # "json" => entries = <<>>)

\* ---- C18
\* a findMatches call starts
SearchStarts == ~loading /\ loading'
\* the queries of one collection among the started ones, in order
StartedFor(col) == SelectSeq(batches', LAMBDA b : b.q.col = col)

\* C18: the step that starts findMatches starts, for lostPets and for
\* foundPets alike, three queries (name and location, location, name) when both
\* normalized tokens are non-empty, one query filtered on the one non-empty
\* token, and one unfiltered most-recent query when both are empty; none of
\* them is answered yet, and no query is started later in the same search.
C18_QueriesPerCollection ==
  [][/\ SearchStarts =>
          LET n == normalize(petName)
              l == normalize(location)
          IN /\ \A col \in {"lostPets", "foundPets"} :
                  LET qs == StartedFor(col)
                  IN /\ (n # Empty /\ l # Empty) =>
                          /\ Len(qs) = 3
                          /\ qs[1].q.name = n /\ qs[1].q.loc = l
                          /\ qs[2].q.name = Empty /\ qs[2].q.loc = l
                          /\ qs[3].q.name = n /\ qs[3].q.loc = Empty
                     /\ (n # Empty /\ l = Empty) =>
                          Len(qs) = 1 /\ qs[1].q.name = n /\ qs[1].q.loc = Empty
                     /\ (n = Empty /\ l # Empty) =>
                          Len(qs) = 1 /\ qs[1].q.name = Empty /\ qs[1].q.loc = l
                     /\ (n = Empty /\ l = Empty) =>
                          /\ Len(qs) = 1 /\ qs[1].q.name = Empty /\ qs[1].q.loc = Empty
                          /\ qs[1].q.lim = RecentLimit
             /\ Len(batches') = Len(StartedFor("lostPets")) + Len(StartedFor("foundPets"))
             /\ \A i \in 1..Len(batches') : batches'[i].snap = NoSnap
     /\ (loading /\ loading') =>
          /\ Len(batches') = Len(batches)
          /\ \A i \in 1..Len(batches) : batches'[i].q = batches[i].q]_vars

\* six queries are in flight, the first of them answered, for a name typed in
\* upper case and a location typed with a leading blank
C18_SixQueriesInFlight ==
  /\ loading /\ Len(batches) = 6
  /\ petName = <<"B">> /\ location = <<" ", "C">>
  /\ batches[1].snap # NoSnap /\ batches[6].snap = NoSnap

\* ---- C19
\* the answers of every query of a search, in the order the queries were started
RECURSIVE Answers(_)
Answers(bs) ==
  IF bs = <<>> THEN <<>>
  ELSE Tagged(Head(bs).snap.docs, Head(bs).q.col) \o Answers(Tail(bs))
Count(list, x) == Cardinality({i \in 1..Len(list) : list[i] = x})
Permutation(a, b) ==
  /\ Len(a) = Len(b)
  /\ \A x \in Range(a) \cup Range(b) : Count(a, x) = Count(b, x)
\* a search ends without an alert
SearchSucceeds == loading /\ ~loading' /\ lastAlert' = ""

\* C19: the step that ends a successful findMatches leaves in results a
\* permutation of the answers of all its queries, of both collections, sorted
\* by creation timestamp, newest first.
C19_ResultsArePermutationSorted ==
  [][SearchSucceeds =>
       /\ Permutation(results', Answers(batches))
       /\ \A i \in 1..(Len(results') - 1) : results'[i].createdAt >= results'[i + 1].createdAt]_vars

\* a finished search whose newest result came from foundPets, the collection
\* asked last
C19_FoundListedFirst ==
  /\ ~loading /\ Len(results) >= 3
  /\ results[1]._col = "foundPets"
  /\ results[Len(results)]._col = "lostPets"

\* ---- C20
\* C20: no two entries of results are the same record of the same collection.
C20_NoRecordTwice ==
  \A i, j \in 1..Len(results) :
    (results[i]._col = results[j]._col /\ results[i].id = results[j].id) => i = j

\* ---- C21
\* a search ends with a failed query
SearchFails == loading /\ ~loading' /\ lastAlert' = "Search failed. Please try again."

\* C21: a findMatches call shows nothing while it runs; the step in which one
\* of its queries fails ends the call with results empty, whatever the other
\* queries answered, with the one alert "Search failed" and loading false, and
\* the call raises no alert in any other step; a call that ends without that
\* alert had every query answered.
C21_SearchAllOrNothing ==
  /\ [](loading => results = <<>>)
  /\ [][/\ SearchFails => (results' = <<>> /\ batches' = <<>>)
        /\ (loading /\ loading') => lastAlert' # "Search failed. Please try again."
        /\ (loading /\ ~loading' /\ ~SearchFails) =>
             \A i \in 1..Len(batches) : batches[i].snap # NoSnap]_vars

\* a search with both tokens has just failed
C21_FailedSearchShowsNothing ==
  /\ route = "/lost" /\ ~loading /\ results = <<>>
  /\ lastAlert = "Search failed. Please try again."
  /\ petName = <<"B">> /\ location = <<" ", "C">>

\* ---- C22
\* spellings of a name or a location a user may type into the search
Tokens == {<<"c">>, <<" ", "C">>, <<"C", " ">>, <<"b">>, <<" ", "B", " ">>, <<"b", "c">>}
LocationQuery(col, v) == SearchQuery(col, Empty, normalize(v), SearchLimit)
NameQuery(col, v) == SearchQuery(col, normalize(v), Empty, SearchLimit)
Reports == {"lostPets", "foundPets"}

\* C22: a report posted by saveReport carries location_lc and petName_lc as the
\* lowercased, trimmed location and name (petName_lc null without a name);
\* every report is among the answers of the location query, and of the name
\* query, of every spelling whose lowercased, trimmed form is that of its
\* location, or name; and findMatches asks with the lowercased, trimmed tokens.
C22_MatchIgnoresCaseAndBlanks ==
  /\ [](\A col \in Reports : \A d \in db[col] :
          /\ d.id >= FirstNewId =>
               /\ d.location_lc = toLowerCase(trim(d.location))
               /\ d.petName_lc = IF d.petName = NullStr THEN NullStr
                                 ELSE toLowerCase(trim(d.petName))
          /\ \A v \in Tokens :
               /\ toLowerCase(trim(v)) = toLowerCase(trim(d.location))
                    => d \in Range(getDocs(db, LocationQuery(col, v)))
               /\ (d.petName # NullStr /\ toLowerCase(trim(v)) = toLowerCase(trim(d.petName)))
                    => d \in Range(getDocs(db, NameQuery(col, v))))
  /\ [][SearchStarts =>
          \A i \in 1..Len(batches') :
            /\ batches'[i].q.loc \in {Empty, toLowerCase(trim(location))}
            /\ batches'[i].q.name \in {Empty, toLowerCase(trim(petName))}]_vars

\* a report posted as " C" under the name "B" is listed by a finished search
C22_PostedReportFound ==
  /\ ~loading
  /\ \E i \in 1..Len(results) :
       /\ results[i].id >= FirstNewId
       /\ results[i].location = <<" ", "C">> /\ results[i].location_lc = <<"c">>
       /\ results[i].petName = <<"B">> /\ results[i].petName_lc = <<"b">>

\* ---- C23
\* the create calls of one handler that are suspended at an await
Creating(h) == {c \in calls : c.h = h /\ c.pc \in {"ensure", "upload", "addDoc"}}

\* C23: no create handler of the Vaccines (Firestore), Health or Lost page has
\* two calls in flight at once.
C23_OneCreateInFlight ==
  \A h \in {"handleAddOrUpdate", "submitLog", "saveReport"} : Cardinality(Creating(h)) <= 1

\* ---- C24
EditFields == {"name", "dueDate", "notes"}
\* records a and b differ at most in the given fields
SameBut(a, b, fields) ==
  DOMAIN a = DOMAIN b /\ \A k \in DOMAIN a \ fields : a[k] = b[k]
\* the update write a step issues
NewUpdates == {w \in writes' \ writes : w.op = "update"}
\* the localStorage list keeps its entries, in their places
SameEntries ==
  /\ Len(entries') = Len(entries)
  /\ \A i \in 1..Len(entries) : entries'[i].id = entries[i].id

\* C24: on the Firestore page a step that issues an update changes, in the
\* client's view of the store, only the document of that identifier, and in it
\* only done when the step is a toggle and only name, dueDate, notes when it is
\* an edit; on the localStorage page a step that keeps the entries in place
\* changes at most one of them, either only in done or only in name, dueDate,
\* notes.  Identifier and creation timestamp never change.
C24_UpdateTouchesOnlyEdited ==
  [][/\ \A w \in NewUpdates :
          /\ \A col \in Collections \ {w.col} : db'[col] = db[col]
          /\ {d.id : d \in db'[w.col]} = {d.id : d \in db[w.col]}
          /\ \A d \in db[w.col] : \A e \in db'[w.col] :
               e.id = d.id =>
                 IF d.id # w.id THEN e = d
                 ELSE \E c \in calls' \ calls :
                        \/ c.h = "handleToggleDone" /\ SameBut(d, e, {"done"})
                        \/ c.h = "handleAddOrUpdate" /\ SameBut(d, e, EditFields)
     /\ (route = "/vaccines-local" /\ pageMounted /\ SameEntries) =>
          /\ Cardinality({i \in 1..Len(entries) : entries'[i] # entries[i]}) <= 1
          /\ \A i \in 1..Len(entries) :
               \/ SameBut(entries[i], entries'[i], {"done"})
               \/ SameBut(entries[i], entries'[i], EditFields)]_vars

\* a stored vaccine that was renamed and marked done, its creation timestamp
\* as it was
C24_ToggledThenEdited ==
  /\ route = "/vaccines" /\ writes = {}
  /\ \E d \in db[VaccinesPath["A"]] :
       d.id = 1 /\ d.done /\ d.name # <<"R">> /\ d.createdAt = 1

\* ---- C25
\* C25: on both Vaccines pages, while an entry is being edited the Mirror holds
\* an entry of that identifier.
C25_EditingIdInMirror ==
  (route \in {"/vaccines", "/vaccines-local"} /\ editingId # NoId) => editingId \in Ids(entries)

\* ---- C26
\* the toggle calls a step starts
NewToggles == {c \in calls' \ calls : c.h = "handleToggleDone"}

\* C26: every status toggle inverts the status the Record has when the toggle
\* is invoked, so that two toggles of one Record restore it: on the Firestore
\* page the document's done in the client's view of the store is inverted by
\* the step that starts the toggle, whether or not the Mirror has caught up
\* with an earlier toggle; on the localStorage page the step inverts done of
\* the one entry it changes.
C26_ToggleInvertsStatus ==
  [][/\ \A c \in NewToggles :
          \A d \in db[c.col] : \A e \in db'[c.col] :
            (d.id = c.id /\ e.id = c.id) => e.done = ~d.done
     /\ (route = "/vaccines-local" /\ pageMounted /\ SameEntries
           /\ entries' # entries /\ editingId' = editingId) =>
          \E i \in 1..Len(entries) :
            /\ entries'[i].done = ~entries[i].done
            /\ \A j \in 1..Len(entries) : j # i => entries'[j] = entries[j]]_vars

\* ---- C27
\* C27: a Record created in this session on the Health or the Lost page
\* carries, as byUid, the uid every subscription of the page to its collection
\* filters on, so that the subscription's snapshots contain it.
C27_CreatedUnderSubscribedUid ==
  \A col \in {"healthLogs", "lostPets", "foundPets"} :
    \A d \in db[col] :
      d.id >= FirstNewId =>
        \A q \in listeners : q.col = col => d.byUid = q.uid

\* ---- C28
\* a clearAll call ends without the alert of its catch
ClearAllSucceeds ==
  /\ \E c \in calls : c.h = "clearAll"
  /\ \A c \in calls' : c.h # "clearAll"
  /\ lastAlert' = ""

\* C28: the step that ends a clearAll of the Health page without a failure
\* leaves no log of the signed-in user in the healthLogs collection.
C28_ClearAllEmptiesCollection ==
  [][(route = "/health" /\ ClearAllSucceeds) =>
       \A d \in db'["healthLogs"] : d.byUid # currentUser']_vars

\* ---------------------------------------------------------------- C29
InFlight(h) == \E c \in calls : c.h = h

\* C29: each busy flag (saving of saveReport, loading of findMatches, loading
\* of the Disease analyze, analyzing of analyzeNow) is true exactly while a
\* call of its action is in flight: it is set when the action starts and it
\* is false again once the action has ended, on a success, on an error
\* response and on an exception alike, so the disabled control is usable again.
C29_BusyFlagFollowsAction ==
  /\ saving <=> InFlight("saveReport")
  /\ loading <=> batches # <<>>
  /\ diseaseLoading <=> InFlight("analyze")
  /\ analyzing <=> InFlight("analyzeNow")

\* the analyze request was answered with 422: the message is shown and the
\* Analyze button is usable again
C29_RejectedAndUsableAgain ==
  route = "/disease" /\ err = "not_pet_image" /\ ~diseaseLoading /\ imgB64 # NULL

\* ---------------------------------------------------------------- C30
\* C30: a displayed result was computed from the currently selected image,
\* and res and err are never both set.
C30_ResultOfSelectedImage ==
  /\ res # NoRes => res.img = imgB64
  /\ ~(res # NoRes /\ err # "")

\* picking or clearing an image resets res and err
DiseasePickResets ==
  [][imgB64' # imgB64 => res' = NoRes /\ err' = ""]_vars

====
